---- MODULE Spec2Model ----
(***************************************************************************)
(* CyberFusion 4.0 pipeline: Ingestion -> Processing -> Analytics ->       *)
(* Orchestration, and the in-memory incident store.                        *)
(*                                                                         *)
(* Conventions                                                             *)
(*  - A JavaScript Map is a function whose DOMAIN is the set of keys, or,  *)
(*    where the code depends on insertion order (find / values()), a       *)
(*    sequence of entries in insertion order.                              *)
(*  - Date.now() / new Date() is the variable now, a monotonic clock.      *)
(*  - `${Date.now()}-${Math.random().toString(36).substr(2, 9)}` is a      *)
(*    pair [t, r]: t the clock, r a token not in use anywhere in the store *)
(*    (the random suffix is the code's uniqueness device).                 *)
(*  - pollingInterval is a natural number; 0 stands for a falsy value      *)
(*    (undefined or 0), which the code never tells apart (analytics.ts     *)
(*    535, 561, 598).                                                      *)
(***************************************************************************)
EXTENDS Integers, Sequences, FiniteSets, Bags, TLC

VARIABLES
    \* ---- DataIngestionService (analytics.ts 521-795)
    dataSources,          \* Map<string, DataSource>
    collectionIntervals,  \* Map<string, Timeout>: id -> period in seconds
    timers,               \* the setInterval timers not yet cleared, as a bag
    dataBuffer,           \* Map<string, any[]>
    bufferSize,           \* number
    inflight,             \* collectData invocations suspended at the await
    recNo,                \* number of raw records created so far (object identity)
    delivered,            \* the batch passed to notifyDataCallbacks by the last step
    processed,            \* ProcessedData emitted by Processing in the last step
    \* ---- OrchestrationService (orchestration.ts 17-465)
    playbooks,            \* Map<string, Playbook>, in insertion order
    incidents,            \* Map<string, Incident>, in insertion order
    emitted,              \* results passed to notifyOrchestrationCallbacks by the last step
    policies,             \* Map<string, Policy>, in insertion order
    rulePending,          \* enforcePolicies: the rules of the running call not yet checked
    \* ---- AnalyticsService (analytics.ts 17-359)
    scored,               \* the RiskScore pushed by the last step, if any
    riskPending,          \* default engine: the groups of the running call not yet scored
    riskScores,           \* riskScores: Map<string, RiskScore>, held as its set of keys
    checked,              \* the ComplianceResults checkCompliance returned in the last call
    complianceStatus,     \* complianceStatus: Map<string, ComplianceControl>
    anomalyCache,         \* anomalies: Map<string, Anomaly>, held as its set of keys
    analysed,             \* the AnalyticsResult passed to notifyAnalyticsCallbacks by the last step
    \* ---- the strategies of Processing and Analytics (part_002 14-15, analytics.ts 18-20)
    strategies,           \* processors, riskScoreEngines, anomalyDetectors, complianceMonitors
    selected,             \* the strategies the last step looked up for its batch, if any
    \* ---- the call in progress (analytics.ts 631-647 and the handlers it calls)
    running,              \* the batch being handled and the handler that runs next, if any
    responding,           \* respondToAnomaly: the playbook's result not yet passed to the
                          \* subscribers, if any
    \* ---- DatabaseService (orchestration.ts 723-2194)
    database,             \* the handle, the store's rows, the calls under way, the last step's statements and outcome
    \* ---- subscribers of the four stages (onData, onProcessedData,
    \*      onAnalyticsResult, onOrchestrationResult)
    callbacks,            \* per stage, the callbacks pushed after the pipeline's own wiring
    received,             \* per stage and callback, what the last step handed to it
    thrown,               \* the stages whose notification let an exception escape in the last step,
                          \* and the error the last step's call threw to its caller
    \* ---- shared
    now                   \* Date.now()

ingestVars ==
    <<dataSources, collectionIntervals, timers, dataBuffer, bufferSize, inflight, recNo>>

orchVars == <<playbooks, incidents>>

policyVars == <<policies, rulePending>>

riskVars == <<scored, riskPending, riskScores, checked, complianceStatus>>

strategyVars == <<strategies, selected>>

pipelineVars == <<running, responding>>

\* what the stages handed out in the last step
emitVars == <<delivered, processed, analysed, emitted, received, thrown>>

vars == <<ingestVars, orchVars, policyVars, riskVars, anomalyCache, strategyVars, pipelineVars, database, callbacks, emitVars, now>>

----------------------------------------------------------------------------
(* Bounds *)

MaxClock == 2
MaxRecords == 3
MaxBatch == 2
MaxInflight == 1
\* The fetches pending together when ticks are followed handler by handler
MaxPending == 2
\* The rows of all entity tables together, and the DatabaseService calls
\* suspended together
MaxRows == 1
MaxCalls == 1
MaxBufferSize == 2
MaxFindings == 2
MaxTimeline == 3
MaxCallbacks == 2
MaxRegistrations == 5   \* registerEnricher calls, the module's two included

----------------------------------------------------------------------------
(* Generic helpers *)

Min(a, b) == IF a < b THEN a ELSE b

Range(s) == { s[i] : i \in 1..Len(s) }

\* Array.prototype.map
MapSeq(F(_), s) == [i \in 1..Len(s) |-> F(s[i])]

\* Map.prototype.set / Map.prototype.delete on a Map held as a function
MapSet(m, k, v) == [x \in DOMAIN m \cup {k} |-> IF x = k THEN v ELSE m[x]]

MapDelete(m, k) == [x \in DOMAIN m \ {k} |-> m[x]]

\* Array.prototype.splice(0, n) applied for its effect on the array:
\* removes the first n elements (n clamped to [0, length]).
SpliceFront(s, n) ==
    LET k == IF n < 0 THEN 0 ELSE Min(n, Len(s))
    IN  SubSeq(s, k + 1, Len(s))

IsPrefix(p, s) == Len(p) <= Len(s) /\ SubSeq(s, 1, Len(p)) = p

IsSuffix(p, s) == Len(p) <= Len(s) /\ SubSeq(s, Len(s) - Len(p) + 1, Len(s)) = p

----------------------------------------------------------------------------
(* Types (unnamed/part_001) *)

EnvironmentType == {"IT", "OT", "Cloud"}

SourceIds == {"s1", "s2"}

\* The (type, environment) of the data sources: s1 is a firewall, whose
\* records carry IP addresses, s2 a SCADA source, whose records carry a
\* device id (createFirewallDataSource / createSCADADataSource).
SourceKind(id) == IF id = "s1" THEN <<"Firewall", "IT">> ELSE <<"SCADA", "OT">>

\* connectionDetails.pollingInterval: 0 is the falsy value (undefined or 0)
PollingIntervals == {0, 30}

\* lastSyncTime?: Date -- 0 is undefined; the clock starts at 1
NoTime == 0

\* The DataSource objects a caller passes to registerDataSource / updateDataSource
DataSourceInputs ==
    { [id |-> i, type |-> SourceKind(i)[1], environment |-> SourceKind(i)[2],
       pollingInterval |-> p, status |-> st, lastSyncTime |-> NoTime] :
        i \in SourceIds, p \in PollingIntervals, st \in {"active", "inactive"} }

----------------------------------------------------------------------------
(* Data Processing (unnamed/part_002) *)

\* processors: Map<string, DataProcessor> after the module-level
\* registerProcessor('IT' | 'OT' | 'Cloud') calls; the value is the
\* environment the processor writes into data.environment.
processors == [k \in {"IT", "OT", "Cloud"} |-> k]

\* enrichers: Map<string, DataEnricher> in insertion order
enrichers == <<"threat-intel", "asset-context">>

\* processors.get(`${environment}:${sourceType}`) || processors.get(environment)
\*   || defaultProcessor
SelectProcessor(environment, sourceType) ==
    LET processorKey == environment \o ":" \o sourceType
    IN  IF processorKey \in DOMAIN processors THEN processors[processorKey]
        ELSE IF environment \in DOMAIN processors THEN processors[environment]
        ELSE "default"

\* normalize(data): data.map(item => ({..., data: {...item, environment}, normalized: true}))
\* The default processor stores the item unchanged (no data.environment).
\* The normalized record's own id (a random string) is not modelled: the raw
\* record in .data carries the identity.
Normalize(processor, data) ==
    MapSeq(LAMBDA item :
             [timestamp |-> item.timestamp,
              source |-> item.sourceId,
              data |-> item,
              environment |-> IF processor = "default" THEN "unknown" ELSE processor,
              normalized |-> TRUE,
              enriched |-> FALSE,
              enrichments |-> {}],
           data)

\* canEnrich(environment, sourceType): both registered enrichers return true
CanEnrich(enricher, environment, sourceType) == TRUE

\* What the enricher looks for in item.data: sourceIP || destinationIP for
\* 'threat-intel', deviceId || resource for 'asset-context'.
Enrichable(enricher, item) ==
    IF enricher = "threat-intel" THEN item.data.ip ELSE item.data.dev

EnrichmentKey(enricher) ==
    IF enricher = "threat-intel" THEN "threatIntel" ELSE "assetContext"

\* A faulty enricher that drops the records it has nothing to say about.
EnrichDropping(enricher, data) ==
    MapSeq(LAMBDA item :
             [item EXCEPT !.enriched = TRUE,
                          !.enrichments = @ \cup {EnrichmentKey(enricher)}],
           SelectSeq(data, LAMBDA item : Enrichable(enricher, item)))

\* enrich(data): data.map(item => cond ? {...item, enriched: true,
\*   enrichments: {...item.enrichments, <key>: {...}}} : item)
Enrich(enricher, data) ==
    MapSeq(LAMBDA item :
             IF Enrichable(enricher, item)
             THEN [item EXCEPT !.enriched = TRUE,
                               !.enrichments = @ \cup {EnrichmentKey(enricher)}]
             ELSE item,
           data)

\* for (const enricher of this.enrichers.values()) if (canEnrich) enrichedData = enrich(...)
RECURSIVE ApplyEnrichers(_, _, _, _)
ApplyEnrichers(es, environment, sourceType, data) ==
    IF es = <<>> THEN data
    ELSE ApplyEnrichers(Tail(es), environment, sourceType,
                        IF CanEnrich(Head(es), environment, sourceType)
                        THEN Enrich(Head(es), data)
                        ELSE data)

ProcessData(environment, sourceType, data) ==
    LET normalizedData == Normalize(SelectProcessor(environment, sourceType), data)
        enrichedData == ApplyEnrichers(enrichers, environment, sourceType, normalizedData)
    IN  [environment |-> environment,
         sourceType |-> sourceType,
         originalCount |-> Len(data),
         normalizedCount |-> Len(normalizedData),
         enrichedCount |-> Len(enrichedData),
         data |-> enrichedData]

\* A handleNewData that drops the batch of a source whose collection has
\* been stopped.
HandleNewDataWhileCollecting(sources, sourceId, data) ==
    IF sourceId \notin DOMAIN sources \/ sourceId \notin DOMAIN collectionIntervals
    THEN <<>>
    ELSE <<ProcessData(sources[sourceId].environment, sources[sourceId].type, data)>>

\* handleNewData(sourceId, data): the ProcessedData passed to
\* notifyProcessingCallbacks, none when the source is not registered.
HandleNewData(sources, sourceId, data) ==
    IF sourceId \notin DOMAIN sources THEN <<>>
    ELSE <<ProcessData(sources[sourceId].environment, sources[sourceId].type, data)>>

----------------------------------------------------------------------------
(* Subscribers (analytics.ts 744-759, 170-185; part_002 94-109;            *)
(* orchestration.ts 374-389)                                               *)

Stages == {"ingestion", "processing", "analytics", "orchestration"}

\* What a subscriber's callback does when it is called
CallbackBehaviours == {"returns", "throws"}

\* A call that lets the callback's exception through.
TryCallUncaught(callback) == callback

\* try { callback(...) } catch (error) { console.error(...) }: the statement
\* completes normally whatever the callback does
TryCall(callback) == "returns"

\* for (const callback of cbs) { TryCall }: whether an exception leaves the
\* loop, and how many callbacks have been called when the loop ends
Escapes(cbs) == \E i \in 1..Len(cbs) : TryCall(cbs[i]) = "throws"

Called(cbs) ==
    IF Escapes(cbs)
    THEN CHOOSE i \in 1..Len(cbs) :
            /\ TryCall(cbs[i]) = "throws"
            /\ \A j \in 1..(i - 1) : TryCall(cbs[j]) # "throws"
    ELSE Len(cbs)

\* The notify loop run once per emission, in order: what each callback is
\* handed. An exception that leaves the loop ends the emitting handler, so
\* nothing is handed out after it.
NotifyCallbacks(cbs, emissions) ==
    [i \in 1..Len(cbs) |->
        IF ~Escapes(cbs) THEN emissions
        ELSE IF i <= Called(cbs) THEN SubSeq(emissions, 1, 1)
        ELSE <<>>]

\* Whether an exception reaches the code that called the notify loop
Thrown(cbs, emissions) == emissions # <<>> /\ Escapes(cbs)

\* dataCallbacks: Processing's handleNewData, pushed by its constructor
\* (part_002 line 24), then the callbacks pushed by onData. handleNewData
\* throws when notifyProcessingCallbacks lets an exception through.
dataCallbacks(processingThrown) ==
    <<IF processingThrown THEN "throws" ELSE "returns">> \o callbacks["ingestion"]

\* notifyDataCallbacks(sourceId, data): what the onData callbacks are handed
notifyDataCallbacks(processingThrown, emission) ==
    Tail(NotifyCallbacks(dataCallbacks(processingThrown), <<emission>>))

\* notifyProcessingCallbacks(processedData) for each ProcessedData emitted
notifyProcessingCallbacks(emissions) ==
    NotifyCallbacks(callbacks["processing"], emissions)

\* notifyAnalyticsCallbacks(analyticsResult)
notifyAnalyticsCallbacks(emissions) ==
    NotifyCallbacks(callbacks["analytics"], emissions)

\* notifyOrchestrationCallbacks(result) for each result, in order
notifyOrchestrationCallbacks(emissions) ==
    NotifyCallbacks(callbacks["orchestration"], emissions)

\* No callback of any stage is handed anything
NoneReceived(cbs) == [s \in Stages |-> [i \in 1..Len(cbs[s]) |-> <<>>]]

----------------------------------------------------------------------------
(* The call in progress (analytics.ts 631-647, 751-759; part_002 30-43;    *)
(* analytics.ts 36-42; orchestration.ts 31-48)                             *)

\* collectData, resumed after its await, calls notifyDataCallbacks, which
\* calls handleNewData, which calls notifyProcessingCallbacks, which calls
\* handleProcessedData, which calls notifyAnalyticsCallbacks, which calls
\* handleAnalyticsResult; "return" is collectData's lines 645-647. None of
\* the calls is awaited or deferred.
Handlers == {"handleNewData", "handleProcessedData", "handleAnalyticsResult", "return"}

\* The batch being handled and the handler that runs next
Frame(fetch, handler) == <<[fetch |-> fetch, handler |-> handler]>>

\* The handler `handler` is the next to run
Running(handler) == running # <<>> /\ running[1].handler = handler

\* A handler calls the next one, or returns to collectData; a handler that
\* is called outside a tick is followed by nothing
Proceed(call, handler) ==
    IF call = <<>> THEN <<>> ELSE Frame(call[1].fetch, handler)

\* An event loop that starts a timer's callback, a resumed await or a
\* caller's request while a call is in progress.
EventLoopAlwaysFree(call) == TRUE

\* A timer's callback, a resumed await and a caller's request start when no
\* call is in progress: the handlers are plain calls, each returns before
\* its caller goes on
EventLoopFree(call) == call = <<>>

----------------------------------------------------------------------------
(* Data Ingestion (analytics.ts 521-795) *)

DefaultBufferSize == 1000

\* The sizes a caller passes to setBufferSize
BufferSizes == 0..MaxBufferSize

\* A step in which no stage emits to its subscribers
NoEmission ==
    /\ delivered' = <<>>
    /\ processed' = <<>>
    /\ analysed' = <<>>
    /\ emitted' = <<>>
    /\ received' = NoneReceived(callbacks)
    /\ thrown' = {}

\* throw new Error(`... with ID ${id} not found`)
NotFound == "not found"

\* A call that ends by throwing to its caller: no stage emits
Throws(error) ==
    /\ delivered' = <<>>
    /\ processed' = <<>>
    /\ analysed' = <<>>
    /\ emitted' = <<>>
    /\ received' = NoneReceived(callbacks)
    /\ thrown' = {error}

\* getBufferedData(id): this.dataBuffer.get(id) || []
getBufferedData(id) == IF id \in DOMAIN dataBuffer THEN dataBuffer[id] ELSE <<>>

\* One raw record of simulateDataCollection. n stands for the object's
\* identity; ip and dev say which fields the switch on dataSource.type adds
\* (sourceIP/destinationIP; deviceId or resource).
RawRecord(dataSource, n, t) ==
    [sourceId |-> dataSource.id,
     n |-> n,
     timestamp |-> t,
     ip |-> dataSource.type \in {"IDS/IPS", "Firewall"},
     dev |-> dataSource.type \in {"SCADA", "PLC", "HMI", "CloudAPI"}]

\* A fetch that brings no record.
simulateEmptyCollection(dataSource, count) == <<>>

\* simulateDataCollection up to its await: count records, built in order
simulateDataCollection(dataSource, count) ==
    [i \in 1..count |-> RawRecord(dataSource, recNo + i, now)]

\* A buffer that keeps its oldest records when it overflows.
TrimKeepingOldest(buffer, size) ==
    IF Len(buffer) > size THEN SubSeq(buffer, 1, size) ELSE buffer

\* if (buffer.length > this.bufferSize) buffer.splice(0, buffer.length - this.bufferSize)
Trim(buffer, size) ==
    IF Len(buffer) > size THEN SpliceFront(buffer, Len(buffer) - size) ELSE buffer

\* setInterval(...) of startCollection, after stopping a running timer:
\* the period is (pollingInterval || 60) seconds
StartedIntervals(intervals, sources, id) ==
    MapSet(intervals, id,
           IF sources[id].pollingInterval # 0 THEN sources[id].pollingInterval ELSE 60)

\* stopCollection as a function of the timers: clearInterval and delete
StoppedIntervals(intervals, id) == MapDelete(intervals, id)

\* The timer setInterval returns: it calls collectData(id) every period seconds.
Timer(id, period) == [id |-> id, period |-> period]

\* A clearInterval that leaves the timer running.
ClearIntervalForgotten(ts, timer) == ts

\* clearInterval(interval)
ClearInterval(ts, timer) == ts (-) SetToBag({timer})

\* setInterval(() => this.collectData(id), period * 1000)
SetInterval(ts, timer) == ts (+) SetToBag({timer})

\* stopCollection as a function of the live timers: if (interval) clearInterval(interval)
StoppedTimers(ts, intervals, id) ==
    IF id \in DOMAIN intervals THEN ClearInterval(ts, Timer(id, intervals[id])) ELSE ts

\* startCollection as a function of the live timers, lines 592-598
StartedTimers(ts, intervals, sources, id) ==
    SetInterval(StoppedTimers(ts, intervals, id),
                Timer(id, StartedIntervals(intervals, sources, id)[id]))

\* the live timers that call collectData(id)
TimersOf(ts, id) == { timer \in BagToSet(ts) : timer.id = id }

\* A registerDataSource that forgets to start the collection.
IntervalsAfterRegisterNoStart(intervals, sources, dataSource) == intervals

\* registerDataSource, lines 535-537
IntervalsAfterRegister(intervals, sources, dataSource) ==
    IF dataSource.status = "active" /\ dataSource.pollingInterval # 0
    THEN StartedIntervals(intervals, sources, dataSource.id)
    ELSE intervals

registerDataSource(dataSource) ==
    /\ dataSources' = MapSet(dataSources, dataSource.id, dataSource)
    /\ dataBuffer' = MapSet(dataBuffer, dataSource.id, <<>>)
    /\ collectionIntervals' =
          IntervalsAfterRegister(collectionIntervals, dataSources', dataSource)
    /\ timers' =
          IF dataSource.status = "active" /\ dataSource.pollingInterval # 0
          THEN StartedTimers(timers, collectionIntervals, dataSources', dataSource.id)
          ELSE timers
    /\ UNCHANGED <<bufferSize, inflight, recNo, now>>
    /\ NoEmission
    /\ UNCHANGED <<orchVars, riskVars, policyVars, anomalyCache, strategyVars, pipelineVars, database, callbacks>>

updateDataSource(dataSource) ==
    /\ IF dataSource.id \notin DOMAIN dataSources
       THEN \* throw new Error(`Data source with ID ... not found`)
            UNCHANGED <<dataSources, collectionIntervals, timers>>
       ELSE /\ dataSources' = MapSet(dataSources, dataSource.id, dataSource)
            /\ collectionIntervals' =
                  IF dataSource.status = "active" /\ dataSource.pollingInterval # 0
                  THEN StartedIntervals(collectionIntervals, dataSources', dataSource.id)
                  ELSE StoppedIntervals(collectionIntervals, dataSource.id)
            /\ timers' =
                  IF dataSource.status = "active" /\ dataSource.pollingInterval # 0
                  THEN StartedTimers(timers, collectionIntervals, dataSources', dataSource.id)
                  ELSE StoppedTimers(timers, collectionIntervals, dataSource.id)
    /\ UNCHANGED <<dataBuffer, bufferSize, inflight, recNo, now>>
    /\ IF dataSource.id \notin DOMAIN dataSources THEN Throws(NotFound) ELSE NoEmission
    /\ UNCHANGED <<orchVars, riskVars, policyVars, anomalyCache, strategyVars, pipelineVars, database, callbacks>>

removeDataSource(dataSourceId) ==
    /\ collectionIntervals' = StoppedIntervals(collectionIntervals, dataSourceId)
    /\ timers' = StoppedTimers(timers, collectionIntervals, dataSourceId)
    /\ dataSources' = MapDelete(dataSources, dataSourceId)
    /\ dataBuffer' = MapDelete(dataBuffer, dataSourceId)
    /\ UNCHANGED <<bufferSize, inflight, recNo, now>>
    /\ NoEmission
    /\ UNCHANGED <<orchVars, riskVars, policyVars, anomalyCache, strategyVars, pipelineVars, database, callbacks>>

startCollection(dataSourceId) ==
    /\ collectionIntervals' =
          IF dataSourceId \notin DOMAIN dataSources
          THEN collectionIntervals   \* throw: not found
          ELSE StartedIntervals(collectionIntervals, dataSources, dataSourceId)
    /\ timers' =
          IF dataSourceId \notin DOMAIN dataSources
          THEN timers
          ELSE StartedTimers(timers, collectionIntervals, dataSources, dataSourceId)
    /\ UNCHANGED <<dataSources, dataBuffer, bufferSize, inflight, recNo, now>>
    /\ IF dataSourceId \notin DOMAIN dataSources THEN Throws(NotFound) ELSE NoEmission
    /\ UNCHANGED <<orchVars, riskVars, policyVars, anomalyCache, strategyVars, pipelineVars, database, callbacks>>

stopCollection(dataSourceId) ==
    /\ collectionIntervals' = StoppedIntervals(collectionIntervals, dataSourceId)
    /\ timers' = StoppedTimers(timers, collectionIntervals, dataSourceId)
    /\ UNCHANGED <<dataSources, dataBuffer, bufferSize, inflight, recNo, now>>
    /\ NoEmission
    /\ UNCHANGED <<orchVars, riskVars, policyVars, anomalyCache, strategyVars, pipelineVars, database, callbacks>>

clearBuffer(dataSourceId) ==
    /\ dataBuffer' = MapSet(dataBuffer, dataSourceId, <<>>)
    /\ UNCHANGED <<dataSources, collectionIntervals, timers, bufferSize, inflight, recNo, now>>
    /\ NoEmission
    /\ UNCHANGED <<orchVars, riskVars, policyVars, anomalyCache, strategyVars, pipelineVars, database, callbacks>>

setBufferSize(size) ==
    /\ bufferSize' = size
    /\ UNCHANGED <<dataSources, collectionIntervals, timers, dataBuffer, inflight, recNo, now>>
    /\ NoEmission
    /\ UNCHANGED <<orchVars, riskVars, policyVars, anomalyCache, strategyVars, pipelineVars, database, callbacks>>

\* The timer of dataSourceId fires: collectData runs up to the await inside
\* simulateDataCollection (lines 620-629, 662-736). The records are built
\* before the simulated network delay; nothing stops a second tick while an
\* earlier fetch of the same source is pending.
collectDataStart(dataSourceId, count, pending) ==
    /\ TimersOf(timers, dataSourceId) # {}
    /\ dataSourceId \in DOMAIN dataSources      \* otherwise collectData throws
    /\ Cardinality(inflight) < pending
    /\ recNo + count <= MaxRecords
    /\ inflight' = inflight \cup
          { [id |-> dataSourceId,
             dataSource |-> dataSources[dataSourceId],
             data |-> simulateDataCollection(dataSources[dataSourceId], count)] }
    /\ recNo' = recNo + count
    /\ UNCHANGED <<dataSources, collectionIntervals, timers, dataBuffer, bufferSize, now>>
    /\ NoEmission
    /\ UNCHANGED <<orchVars, riskVars, policyVars, anomalyCache, strategyVars, pipelineVars, database, callbacks>>

\* A tick while fewer than MaxInflight fetches are pending
collectDataBegin(dataSourceId, count) ==
    collectDataStart(dataSourceId, count, MaxInflight)

\* The awaited fetch resolves: collectData runs from line 631 to its end.
\* notifyDataCallbacks calls Processing's handleNewData (subscribed in the
\* constructor, part_002 line 24) before lastSyncTime is written.
collectDataEnd(fetch) ==
    /\ fetch \in inflight
    /\ inflight' = inflight \ {fetch}
    /\ dataBuffer' = MapSet(dataBuffer, fetch.id,
                            Trim(getBufferedData(fetch.id) \o fetch.data, bufferSize))
    /\ delivered' = <<[sourceId |-> fetch.id, data |-> fetch.data]>>
    /\ processed' = HandleNewData(dataSources, fetch.id, fetch.data)
    /\ LET processingThrown == Thrown(callbacks["processing"], processed')
           escaped == Thrown(dataCallbacks(processingThrown), delivered')
       IN  /\ received' = [NoneReceived(callbacks) EXCEPT
                  !["processing"] = notifyProcessingCallbacks(processed'),
                  !["ingestion"] = notifyDataCallbacks(processingThrown, delivered'[1])]
           /\ thrown' = (IF processingThrown THEN {"processing"} ELSE {})
                            \cup (IF escaped THEN {"ingestion"} ELSE {})
           /\ dataSources' = MapSet(dataSources, fetch.id,
                  IF escaped
                  THEN \* catch (error): { ...dataSource, status: 'error' }
                       [fetch.dataSource EXCEPT !.status = "error"]
                  ELSE [fetch.dataSource EXCEPT !.lastSyncTime = now])
    /\ analysed' = <<>>
    /\ emitted' = <<>>
    /\ UNCHANGED <<collectionIntervals, timers, bufferSize, recNo, now>>
    /\ UNCHANGED <<orchVars, riskVars, policyVars, anomalyCache, strategyVars, pipelineVars, database, callbacks>>

\* The awaited fetch is rejected: collectData runs its catch clause (lines
\* 650-656) with the DataSource it read before the await. The simulated
\* fetch of lines 662-739 always resolves; a fetch from a real source is the
\* case the clause is written for.
collectDataFailed(fetch) ==
    /\ fetch \in inflight
    /\ inflight' = inflight \ {fetch}
    /\ dataSources' = MapSet(dataSources, fetch.id,
                             [fetch.dataSource EXCEPT !.status = "error"])
    /\ UNCHANGED <<collectionIntervals, timers, dataBuffer, bufferSize, recNo, now>>
    /\ NoEmission
    /\ UNCHANGED <<orchVars, riskVars, policyVars, anomalyCache, strategyVars, pipelineVars, database, callbacks>>

----------------------------------------------------------------------------
(* Orchestration (orchestration.ts 17-695) *)

\* Incident.status (part_001 line 148), in the order of the state machine
IncidentStatuses ==
    <<"new", "assigned", "investigating", "contained", "remediated", "resolved", "closed">>

StatusRank(status) == CHOOSE i \in 1..Len(IncidentStatuses) : IncidentStatuses[i] = status

\* an absent optional field (trigger.severity, trigger.frameworkId, ...)
Undefined == "undefined"

\* The sample playbooks registered at module load (lines 540-624), in
\* registration order.
SamplePlaybooks ==
    << [id |-> "ransomware-response", name |-> "Ransomware Response", type |-> "anomaly",
        triggers |-> << [type |-> "network", severity |-> "critical", frameworkId |-> Undefined],
                        [type |-> "system", severity |-> "critical", frameworkId |-> Undefined] >>,
        steps |-> << [name |-> "Isolate Affected Systems", critical |-> TRUE],
                     [name |-> "Capture Forensic Evidence", critical |-> FALSE],
                     [name |-> "Notify Security Team", critical |-> TRUE],
                     [name |-> "Initiate Incident Response", critical |-> TRUE] >>],
       [id |-> "compliance-remediation", name |-> "Compliance Remediation", type |-> "compliance",
        triggers |-> << [type |-> Undefined, severity |-> Undefined, frameworkId |-> "nist-csf"],
                        [type |-> Undefined, severity |-> Undefined, frameworkId |-> "iso-27001"] >>,
        steps |-> << [name |-> "Document Compliance Issue", critical |-> TRUE],
                     [name |-> "Assign Remediation Task", critical |-> TRUE],
                     [name |-> "Schedule Follow-up Assessment", critical |-> FALSE],
                     [name |-> "Notify Compliance Officer", critical |-> TRUE] >>] >>

\* The playbooks a caller passes to registerPlaybook: one whose triggers name
\* 'user' anomalies of severity 'high' and 'network' anomalies of severity
\* 'medium'.
PlaybookInputs ==
    { [id |-> "account-lockdown", name |-> "Account Lockdown", type |-> "anomaly",
       triggers |-> << [type |-> "user", severity |-> "high", frameworkId |-> Undefined],
                       [type |-> "network", severity |-> "medium", frameworkId |-> Undefined] >>,
       steps |-> << [name |-> "Disable Account", critical |-> TRUE] >>] }

\* The sample policies registered at module load (lines 627-695)
SamplePolicies ==
    << [id |-> "network-segmentation", name |-> "Network Segmentation",
        environment |-> "all", status |-> "active",
        rules |-> << [id |-> "ns-rule-1", name |-> "Block Unauthorized IT-OT Traffic",
                      status |-> "active",
                      actions |-> << [id |-> "ns-action-1", type |-> "block"],
                                     [id |-> "ns-action-2", type |-> "alert"] >>] >>],
       [id |-> "cloud-access-control", name |-> "Cloud Access Control",
        environment |-> "Cloud", status |-> "active",
        rules |-> << [id |-> "cac-rule-1", name |-> "Enforce MFA for Admin Access",
                      status |-> "active",
                      actions |-> << [id |-> "cac-action-1", type |-> "block"],
                                     [id |-> "cac-action-2", type |-> "notify"] >>] >>] >>

\* The policies a caller passes to registerPolicy: the sample Network
\* Segmentation policy switched off; a policy for another environment than
\* the results come from; the sample Cloud Access Control policy with its
\* rule switched off and a second rule added.
PolicyInputs ==
    { [SamplePolicies[1] EXCEPT !.status = "inactive"],
      [id |-> "ot-isolation", name |-> "OT Isolation",
       environment |-> "OT", status |-> "active",
       rules |-> << [id |-> "ot-rule-1", name |-> "Isolate Controller",
                     status |-> "active",
                     actions |-> << [id |-> "ot-action-1", type |-> "isolate"] >>] >>],
      [SamplePolicies[2] EXCEPT
          !.rules = << [@[1] EXCEPT !.status = "inactive"],
                       [id |-> "cac-rule-2", name |-> "Alert On Root Login",
                        status |-> "active",
                        actions |-> << [id |-> "cac-action-3", type |-> "alert"] >>] >> ] }

\* The anomalies Analytics delivers. An id names one anomaly, so a
\* re-delivery carries the same type and severity.
AnomalyInputs ==
    { [id |-> "a1", type |-> "network", severity |-> "critical"],
      [id |-> "a2", type |-> "user", severity |-> "high"],
      [id |-> "a3", type |-> "application", severity |-> "high"],
      [id |-> "a4", type |-> "network", severity |-> "medium"] }

\* The compliance results Analytics delivers: compliant; non-compliant under a
\* framework a playbook answers; non-compliant under one none answers;
\* non-compliant without a control.
ComplianceInputs ==
    { [compliant |-> TRUE, control |-> "nist-csf"],
      [compliant |-> FALSE, control |-> "nist-csf"],
      [compliant |-> FALSE, control |-> "iec-62443"],
      [compliant |-> FALSE, control |-> Undefined] }

\* Sequences over S of length at most n
SeqsUpTo(S, n) == UNION { [1..k -> S] : k \in 0..n }

\* Map.prototype.set on a Map held as a sequence of entries with an id:
\* an existing key keeps its position, a new key goes last.
SeqMapSet(entries, entry) ==
    IF \E i \in 1..Len(entries) : entries[i].id = entry.id
    THEN [i \in 1..Len(entries) |-> IF entries[i].id = entry.id THEN entry ELSE entries[i]]
    ELSE Append(entries, entry)

\* Array.prototype.find as an index: the first i with Test(s[i]), 0 if none
FindIndex(s, Test(_)) ==
    IF \E i \in 1..Len(s) : Test(s[i])
    THEN CHOOSE i \in 1..Len(s) : Test(s[i]) /\ \A j \in 1..(i - 1) : ~Test(s[j])
    ELSE 0

\* findPlaybookForAnomaly, as an index into the playbooks
findPlaybookForAnomaly(pbs, anomaly) ==
    FindIndex(pbs, LAMBDA playbook :
        /\ playbook.type = "anomaly"
        /\ \E k \in 1..Len(playbook.triggers) :
              /\ playbook.triggers[k].type = anomaly.type
              /\ playbook.triggers[k].severity = anomaly.severity)

\* A lookup that takes the first compliance playbook, whatever its triggers.
findPlaybookForAnyFramework(pbs, complianceResult) ==
    FindIndex(pbs, LAMBDA playbook : playbook.type = "compliance")

\* findPlaybookForComplianceIssue, as an index into the playbooks
findPlaybookForComplianceIssue(pbs, complianceResult) ==
    FindIndex(pbs, LAMBDA playbook :
        /\ playbook.type = "compliance"
        /\ \E k \in 1..Len(playbook.triggers) :
              playbook.triggers[k].frameworkId = complianceResult.control)

\* The random suffixes in use in the incident store: every id and incidentId
UsedTokens(incs) ==
    UNION { {incs[i].id.r}
            \cup { incs[i].timeline[k].id.r : k \in 1..Len(incs[i].timeline) }
            \cup { incs[i].timeline[k].incidentId.r : k \in 1..Len(incs[i].timeline) }
          : i \in 1..Len(incs) }

\* The k-th random suffix drawn: the k-th smallest token not in use
RECURSIVE NthFree(_, _, _)
NthFree(used, k, from) ==
    IF from \in used THEN NthFree(used, k, from + 1)
    ELSE IF k = 1 THEN from
    ELSE NthFree(used, k - 1, from + 1)

Fresh(incs, k) == NthFree(UsedTokens(incs), k, 1)

\* A lookup that never finds the incident of an anomaly.
existingIncidentNever(incs, anomaly) == 0

\* Array.from(this.incidents.values()).find(incident =>
\*   incident.relatedAnomalies.includes(anomaly.id)), as an index
existingIncident(incs, anomaly) ==
    FindIndex(incs, LAMBDA incident :
        \E k \in 1..Len(incident.relatedAnomalies) :
            incident.relatedAnomalies[k] = anomaly.id)

\* An incident store that opens an incident with its detection event only.
createIncidentDetectionOnly(incs, anomaly, playbookName, t) ==
    Append(incs,
        [id |-> [t |-> t, r |-> Fresh(incs, 1)],
         severity |-> anomaly.severity,
         status |-> "new",
         assignedTo |-> Undefined,
         relatedAnomalies |-> <<anomaly.id>>,
         timeline |-> <<
             [id |-> [t |-> t, r |-> Fresh(incs, 2)],
              incidentId |-> [t |-> t, r |-> Fresh(incs, 3)],
              type |-> "detection",
              timestamp |-> t] >>,
         createdAt |-> t,
         updatedAt |-> t,
         resolvedAt |-> NoTime])

\* createOrUpdateIncident (lines 225-283) at time t
createOrUpdateIncident(incs, anomaly, playbookName, t) ==
    LET existing == existingIncident(incs, anomaly)
    IN  IF existing # 0
        THEN SeqMapSet(incs,
                [incs[existing] EXCEPT
                    !.updatedAt = t,
                    !.timeline = Append(@,
                        [id |-> [t |-> t, r |-> Fresh(incs, 1)],
                         incidentId |-> incs[existing].id,
                         type |-> "action",
                         timestamp |-> t])])
        ELSE SeqMapSet(incs,
                [id |-> [t |-> t, r |-> Fresh(incs, 1)],
                 severity |-> anomaly.severity,
                 status |-> "new",
                 assignedTo |-> Undefined,
                 relatedAnomalies |-> <<anomaly.id>>,
                 timeline |-> <<
                     [id |-> [t |-> t, r |-> Fresh(incs, 2)],
                      incidentId |-> [t |-> t, r |-> Fresh(incs, 3)],
                      type |-> "detection",
                      timestamp |-> t],
                     [id |-> [t |-> t + 1, r |-> Fresh(incs, 4)],
                      incidentId |-> [t |-> t, r |-> Fresh(incs, 5)],
                      type |-> "action",
                      timestamp |-> t] >>,
                 createdAt |-> t,
                 updatedAt |-> t,
                 resolvedAt |-> NoTime])

\* A handler that answers anomalies of every severity.
RespondsToAnySeverity(pbs, anomaly) == findPlaybookForAnomaly(pbs, anomaly) # 0

\* handleAnalyticsResult, lines 33-37: whether the anomaly is responded to
Responds(pbs, anomaly) ==
    /\ anomaly.severity \in {"critical", "high"}
    /\ findPlaybookForAnomaly(pbs, anomaly) # 0

\* The incident store after the loop over analyticsResult.anomalies
\* (respondToAnomaly for each critical or high anomaly, in order)
RECURSIVE RespondToAnomalies(_, _, _, _)
RespondToAnomalies(incs, pbs, anomalies, t) ==
    IF anomalies = <<>> THEN incs
    ELSE LET anomaly == Head(anomalies)
             after == IF Responds(pbs, anomaly)
                      THEN createOrUpdateIncident(incs, anomaly,
                               pbs[findPlaybookForAnomaly(pbs, anomaly)].name, t)
                      ELSE incs
         IN  RespondToAnomalies(after, pbs, Tail(anomalies), t)

\* Results handed out with the latest anomaly first.
AnomalyResultsLatestFirst(pbs, anomalies) ==
    LET responded == SelectSeq(anomalies, LAMBDA anomaly : Responds(pbs, anomaly))
    IN  [k \in 1..Len(responded) |->
            [type |-> "playbook",
             name |-> pbs[findPlaybookForAnomaly(pbs, responded[Len(responded) + 1 - k])].name,
             context |-> responded[Len(responded) + 1 - k].id]]

\* The OrchestrationResults handed to notifyOrchestrationCallbacks while one
\* AnalyticsResult is handled, in order: one per responded anomaly, one per
\* answered compliance issue, one per rule whose condition is met. A result is
\* held as [type, name, context]; the step outcomes inside it are not held.
AnomalyResults(pbs, anomalies) ==
    LET responded == SelectSeq(anomalies, LAMBDA anomaly : Responds(pbs, anomaly))
    IN  MapSeq(LAMBDA anomaly :
                 [type |-> "playbook",
                  name |-> pbs[findPlaybookForAnomaly(pbs, anomaly)].name,
                  context |-> anomaly.id],
               responded)

ComplianceResults(pbs, complianceResults) ==
    LET answered == SelectSeq(complianceResults, LAMBDA cr :
                        /\ ~cr.compliant
                        /\ cr.control # Undefined
                        /\ findPlaybookForComplianceIssue(pbs, cr) # 0)
    IN  MapSeq(LAMBDA cr :
                 [type |-> "playbook",
                  name |-> pbs[findPlaybookForComplianceIssue(pbs, cr)].name,
                  context |-> cr.control],
               answered)

\* enforcePolicies: conds is the set of rule ids whose evaluateRuleCondition
\* draw (Math.random() < 0.2) came out true
RECURSIVE RuleResults(_, _, _, _)
RuleResults(policy, rules, environment, conds) ==
    IF rules = <<>> THEN <<>>
    ELSE (IF Head(rules).status = "active" /\ Head(rules).id \in conds
          THEN << [type |-> "policy",
                   name |-> policy.name \o ":" \o Head(rules).name,
                   context |-> environment] >>
          ELSE <<>>)
         \o RuleResults(policy, Tail(rules), environment, conds)

RECURSIVE PolicyResults(_, _, _)
PolicyResults(pols, environment, conds) ==
    IF pols = <<>> THEN <<>>
    ELSE (IF /\ Head(pols).status = "active"
             /\ Head(pols).environment \in {environment, "all"}
          THEN RuleResults(Head(pols), Head(pols).rules, environment, conds)
          ELSE <<>>)
         \o PolicyResults(Tail(pols), environment, conds)

\* The AnalyticsResults delivered to handleAnalyticsResult
AnalyticsResultInputs ==
    [environment : {"IT", "Cloud"},
     anomalies : SeqsUpTo(AnomalyInputs, MaxFindings),
     complianceResults : SeqsUpTo(ComplianceInputs, 1)]

RuleIds == {"ns-rule-1", "cac-rule-1"}

\* One delivery and its random draws: an AnalyticsResult and the rules whose
\* condition comes out met, at most MaxFindings anomalies, compliance results
\* and met conditions together.
Deliveries ==
    { d \in [result : AnalyticsResultInputs, conds : SUBSET RuleIds] :
        Len(d.result.anomalies) + Len(d.result.complianceResults)
            + Cardinality(d.conds) <= MaxFindings }

\* The deliveries in which no rule's condition comes out met: findings only
FindingDeliveries ==
    { d \in Deliveries : d.result.environment = "IT" /\ d.conds = {} }

handleAnalyticsResult(analyticsResult, conds) ==
    /\ emitted' = AnomalyResults(playbooks, analyticsResult.anomalies)
                  \o ComplianceResults(playbooks, analyticsResult.complianceResults)
                  \o PolicyResults(policies, analyticsResult.environment, conds)
    /\ incidents' = RespondToAnomalies(incidents, playbooks, analyticsResult.anomalies, now)
    /\ \A i \in 1..Len(incidents') : Len(incidents'[i].timeline) <= MaxTimeline
    /\ received' = [NoneReceived(callbacks) EXCEPT
          !["orchestration"] = notifyOrchestrationCallbacks(emitted')]
    /\ thrown' = IF Thrown(callbacks["orchestration"], emitted')
                 THEN {"orchestration"} ELSE {}
    /\ delivered' = <<>>
    /\ processed' = <<>>
    /\ analysed' = <<>>
    /\ running' = Proceed(running, "return")
    /\ UNCHANGED responding
    /\ UNCHANGED <<playbooks, now>>
    /\ UNCHANGED <<ingestVars, riskVars, policyVars, anomalyCache, strategyVars, database, callbacks>>

registerPlaybook(playbook) ==
    /\ playbooks' = SeqMapSet(playbooks, playbook)
    /\ NoEmission
    /\ UNCHANGED <<incidents, now>>
    /\ UNCHANGED <<ingestVars, riskVars, policyVars, anomalyCache, strategyVars, pipelineVars, database, callbacks>>

\* The Incident objects a caller passes to updateIncident: a stored incident
\* with another status and any prefix of its timeline.
IncidentInputs ==
    UNION { { [incidents[i] EXCEPT !.status = st, !.timeline = SubSeq(@, 1, k)] :
                st \in Range(IncidentStatuses),
                k \in 0..Len(incidents[i].timeline) } :
            i \in 1..Len(incidents) }

updateIncident(incident) ==
    /\ incidents' = SeqMapSet(incidents, [incident EXCEPT !.updatedAt = now])
    /\ NoEmission
    /\ UNCHANGED <<playbooks, now>>
    /\ UNCHANGED <<ingestVars, riskVars, policyVars, anomalyCache, strategyVars, pipelineVars, database, callbacks>>

\* The events a caller passes to addIncidentEvent (its own timestamp included)
EventInputs == [type : {"comment"}, timestamp : 1..MaxClock]

addIncidentEvent(incidentId, event) ==
    LET i == FindIndex(incidents, LAMBDA incident : incident.id = incidentId)
    IN  /\ IF i = 0
           THEN UNCHANGED incidents   \* throw: incident not found
           ELSE /\ Len(incidents[i].timeline) < MaxTimeline
                /\ incidents' = SeqMapSet(incidents,
                      [incidents[i] EXCEPT
                          !.timeline = Append(@,
                              [id |-> [t |-> now, r |-> Fresh(incidents, 1)],
                               incidentId |-> incidentId,
                               type |-> event.type,
                               timestamp |-> event.timestamp]),
                          !.updatedAt = now])
        /\ IF i = 0 THEN Throws(NotFound) ELSE NoEmission
        /\ UNCHANGED <<playbooks, now>>
        /\ UNCHANGED <<ingestVars, riskVars, policyVars, anomalyCache, strategyVars, pipelineVars, database, callbacks>>

\* An id no incident has
UnknownIncident == [t |-> 0, r |-> 0]

\* Time passes.
AdvanceClock ==
    /\ now < MaxClock
    /\ now' = now + 1
    /\ NoEmission
    /\ UNCHANGED <<playbooks, incidents>>
    /\ UNCHANGED <<ingestVars, riskVars, policyVars, anomalyCache, strategyVars, pipelineVars, database, callbacks>>

----------------------------------------------------------------------------
(* Orchestration: execution of playbooks (orchestration.ts 53-91, 154-220) *)

\* The draws of simulateActionExecution for a list of steps, one per step:
\* TRUE is Math.random() > 0.05
Draws(steps) == [1..Len(steps) -> BOOLEAN]

\* simulateActionExecution(step, context) under one draw. It does not throw,
\* so the catch branch of the loops that call it is never taken.
simulateActionExecution(step, draw) == [name |-> step.name, success |-> draw]

\* A loop that gives up after any failed step.
StopsAfterAnyFailure(actionResult, step) == ~actionResult.success

\* if (!actionResult.success && step.critical) break
StopsAfter(actionResult, step) == ~actionResult.success /\ step.critical

\* The loop of executePlaybook over playbook.steps: the actions pushed
RECURSIVE ExecuteSteps(_, _)
ExecuteSteps(steps, draws) ==
    IF steps = <<>> THEN <<>>
    ELSE LET actionResult == simulateActionExecution(Head(steps), Head(draws))
         IN  <<actionResult>> \o
             (IF StopsAfter(actionResult, Head(steps)) THEN <<>>
              ELSE ExecuteSteps(Tail(steps), Tail(draws)))

\* executePlaybook(playbook, context): the OrchestrationResult, held without
\* its times. The context is held as the id of the anomaly, or the control
\* of the compliance result.
executePlaybook(playbook, context, draws) ==
    LET actions == ExecuteSteps(playbook.steps, draws)
    IN  [type |-> "playbook",
         name |-> playbook.name,
         success |-> \A i \in 1..Len(actions) : actions[i].success,
         actions |-> actions,
         context |-> context]

\* One OrchestrationResult is passed to notifyOrchestrationCallbacks, or none
NotifyResults(results) ==
    /\ emitted' = results
    /\ received' = [NoneReceived(callbacks) EXCEPT
          !["orchestration"] = notifyOrchestrationCallbacks(results)]
    /\ thrown' = IF Thrown(callbacks["orchestration"], results)
                 THEN {"orchestration"} ELSE {}
    /\ delivered' = <<>>
    /\ processed' = <<>>
    /\ analysed' = <<>>

\* respondToAnomaly(anomaly), draws being the step draws of the playbook found
respondToAnomaly(anomaly, draws) ==
    LET found == findPlaybookForAnomaly(playbooks, anomaly)
    IN  /\ IF found = 0
           THEN /\ draws = <<>>
                /\ UNCHANGED incidents
                /\ NotifyResults(<<>>)
           ELSE LET result == executePlaybook(playbooks[found], anomaly.id, draws)
                IN  /\ draws \in Draws(playbooks[found].steps)
                    /\ incidents' = createOrUpdateIncident(incidents, anomaly, result.name, now)
                    /\ \A i \in 1..Len(incidents') : Len(incidents'[i].timeline) <= MaxTimeline
                    /\ NotifyResults(<<result>>)
        /\ UNCHANGED <<playbooks, now>>
        /\ UNCHANGED <<ingestVars, riskVars, policyVars, anomalyCache, strategyVars, pipelineVars, database, callbacks>>

\* A response that opens or updates the incident only when the playbook
\* succeeded.
IncidentsAfterSuccess(incs, anomaly, result, t) ==
    IF result.success THEN createOrUpdateIncident(incs, anomaly, result.name, t) ELSE incs

\* this.createOrUpdateIncident(anomaly, result), line 64
IncidentsAfterResponse(incs, anomaly, result, t) ==
    createOrUpdateIncident(incs, anomaly, result.name, t)

\* respondToAnomaly(anomaly) up to its call of notifyOrchestrationCallbacks
\* (lines 53-64): the playbook is executed and the incident written; the
\* result has not been handed to anybody yet
respondToAnomalyBegin(anomaly, draws) ==
    LET found == findPlaybookForAnomaly(playbooks, anomaly)
    IN  /\ responding = <<>>
        /\ IF found = 0
           THEN /\ draws = <<>>
                /\ UNCHANGED <<incidents, responding>>
           ELSE LET result == executePlaybook(playbooks[found], anomaly.id, draws)
                IN  /\ draws \in Draws(playbooks[found].steps)
                    /\ incidents' = IncidentsAfterResponse(incidents, anomaly, result, now)
                    /\ \A i \in 1..Len(incidents') : Len(incidents'[i].timeline) <= MaxTimeline
                    /\ responding' = <<result>>
        /\ NoEmission
        /\ UNCHANGED <<playbooks, running, now>>
        /\ UNCHANGED <<ingestVars, riskVars, policyVars, anomalyCache, strategyVars, database, callbacks>>

\* this.notifyOrchestrationCallbacks(result), line 67
respondToAnomalyNotify ==
    /\ responding # <<>>
    /\ NotifyResults(responding)
    /\ responding' = <<>>
    /\ UNCHANGED <<playbooks, incidents, running, now>>
    /\ UNCHANGED <<ingestVars, riskVars, policyVars, anomalyCache, strategyVars, database, callbacks>>

\* respondToComplianceIssue(complianceResult)
respondToComplianceIssue(complianceResult, draws) ==
    LET found == findPlaybookForComplianceIssue(playbooks, complianceResult)
    IN  /\ IF found = 0
           THEN /\ draws = <<>>
                /\ NotifyResults(<<>>)
           ELSE /\ draws \in Draws(playbooks[found].steps)
                /\ NotifyResults(<<executePlaybook(playbooks[found],
                                                   complianceResult.control, draws)>>)
        /\ UNCHANGED <<playbooks, incidents, now>>
        /\ UNCHANGED <<ingestVars, riskVars, policyVars, anomalyCache, strategyVars, pipelineVars, database, callbacks>>

----------------------------------------------------------------------------
(* Orchestration: policy enforcement (orchestration.ts 96-122, 288-353,    *)
(* 366-369)                                                                *)

\* The results whose policies are enforced: without findings, or with one
AnalyticsResultsEnforced ==
    { r \in AnalyticsResultInputs :
        /\ r.complianceResults = <<>>
        /\ r.anomalies \in {<<>>, <<CHOOSE a \in AnomalyInputs : a.id = "a1">>} }

registerPolicy(policy) ==
    /\ rulePending = <<>>            \* no call is running (one thread)
    /\ policies' = SeqMapSet(policies, policy)
    /\ rulePending' = <<>>
    /\ NoEmission
    /\ UNCHANGED <<ingestVars, orchVars, riskVars, anomalyCache, strategyVars, pipelineVars, database, callbacks, now>>

\* The loops of enforcePolicies laid out: every rule of every policy that
\* passes the filter of lines 100-103, in Map order and rule order
RECURSIVE ApplicableRules(_, _)
ApplicableRules(pols, environment) ==
    IF pols = <<>> THEN <<>>
    ELSE (IF /\ Head(pols).status = "active"
             /\ Head(pols).environment \in {environment, "all"}
          THEN [j \in 1..Len(Head(pols).rules) |->
                   [policy |-> Head(pols).name,
                    rule |-> Head(pols).rules[j],
                    environment |-> environment]]
          ELSE <<>>)
         \o ApplicableRules(Tail(pols), environment)

\* enforcePolicies(analyticsResult) up to the first rule
enforcePolicies(analyticsResult) ==
    /\ rulePending = <<>>            \* no call is running (one thread)
    /\ rulePending' = ApplicableRules(policies, analyticsResult.environment)
    /\ NoEmission
    /\ UNCHANGED <<ingestVars, orchVars, policies, riskVars, anomalyCache, strategyVars, pipelineVars, database, callbacks, now>>

\* simulatePolicyActionExecution(action, context): failing holds the ids of
\* the actions whose draw (Math.random() > 0.05) comes out false
simulatePolicyActionExecution(action, failing) ==
    [type |-> action.type, success |-> action.id \notin failing]

\* A loop over the actions that gives up after the first failed one.
RuleActionResultsUntilFailure(actions, failing) ==
    LET fails == { i \in 1..Len(actions) : actions[i].id \in failing }
        n == IF fails = {} THEN Len(actions)
             ELSE CHOOSE i \in fails : \A j \in fails : i <= j
    IN  [i \in 1..n |-> simulatePolicyActionExecution(actions[i], failing)]

\* for (const action of rule.actions) actions.push(simulatePolicyActionExecution(...))
RuleActionResults(actions, failing) ==
    [i \in 1..Len(actions) |-> simulatePolicyActionExecution(actions[i], failing)]

\* executeRuleActions(policy, rule, context), held without its times; the
\* context is held as the result's environment
executeRuleActions(policyName, rule, context, failing) ==
    LET actions == RuleActionResults(rule.actions, failing)
    IN  [type |-> "policy",
         name |-> policyName \o ":" \o rule.name,
         success |-> \A i \in 1..Len(actions) : actions[i].success,
         actions |-> actions,
         context |-> context]

\* One round of the loop over the rules (lines 107-120): conditionMet is the
\* draw of evaluateRuleCondition, made for an active rule only
enforcePolicyRule(conditionMet, failing) ==
    /\ rulePending # <<>>
    /\ LET entry == Head(rulePending)
       IN  IF entry.rule.status = "active" /\ conditionMet
           THEN /\ failing \subseteq { entry.rule.actions[i].id : i \in 1..Len(entry.rule.actions) }
                /\ NotifyResults(<<executeRuleActions(entry.policy, entry.rule,
                                                      entry.environment, failing)>>)
           ELSE /\ failing = {}
                /\ entry.rule.status = "active" \/ ~conditionMet
                /\ NotifyResults(<<>>)
    /\ rulePending' = Tail(rulePending)
    /\ UNCHANGED <<ingestVars, orchVars, policies, riskVars, anomalyCache, strategyVars, pipelineVars, database, callbacks, now>>

----------------------------------------------------------------------------
(* Analytics: risk scoring (analytics.ts 72-91, 225-274, 407-504) *)

\* Math.floor(Math.random() * n): every integer in 0..n-1
RandomInt(n) == 0..(n - 1)

\* Math.min(100, Math.floor(Math.random() * n) + base): the values of one factor
Factor(n, base) == { Min(100, r + base) : r \in RandomInt(n) }

\* riskScoreEngines: Map<string, RiskScoreEngine> after the module-level
\* registerRiskScoreEngine('IT' | 'OT' | 'Cloud') calls
riskScoreEngines == {"IT", "OT", "Cloud"}

\* An environment string outside EnvironmentType. TypeScript does not check
\* the type at run time, and no engine is registered for it, so its batches
\* go to the default engine.
OtherEnvironment == "Edge"

\* riskScoreEngines.get(`${environment}:${sourceType}`)
\*   || riskScoreEngines.get(environment) || defaultRiskScoreEngine
SelectRiskEngine(environment, sourceType) ==
    LET engineKey == environment \o ":" \o sourceType
    IN  IF engineKey \in riskScoreEngines THEN engineKey
        ELSE IF environment \in riskScoreEngines THEN environment
        ELSE "default"

\* The four factors of an engine (vulnerabilities, threats, compliance,
\* exposure, in this order) and their weights in tenths (0.3 is 3)
EngineFactors(engine) ==
    CASE engine = "default" -> << Factor(50, 20), Factor(40, 10), Factor(30, 40), Factor(20, 30) >>
      [] engine = "IT"      -> << Factor(50, 20), Factor(40, 30), Factor(30, 40), Factor(20, 30) >>
      [] engine = "OT"      -> << Factor(40, 10), Factor(30, 20), Factor(40, 30), Factor(50, 20) >>
      [] engine = "Cloud"   -> << Factor(30, 20), Factor(40, 20), Factor(50, 30), Factor(30, 40) >>

EngineWeights(engine) ==
    CASE engine = "default" -> <<3, 3, 2, 2>>
      [] engine = "IT"      -> <<3, 3, 2, 2>>
      [] engine = "OT"      -> <<2, 2, 3, 3>>
      [] engine = "Cloud"   -> <<2, 3, 3, 2>>

\* (vulnerabilityFactor * w1) + (threatFactor * w2) + (complianceFactor * w3)
\*   + (exposureFactor * w4), in tenths of a point: every value the sum takes
\* over the draws of the four factors, accumulated left to right as the
\* expression is.
WeightedSums(engine) ==
    LET f == EngineFactors(engine)
        w == EngineWeights(engine)
        s1 == { w[1] * x : x \in f[1] }
        s2 == { a + w[2] * x : a \in s1, x \in f[2] }
        s3 == { a + w[3] * x : a \in s2, x \in f[3] }
    IN  { a + w[4] * x : a \in s3, x \in f[4] }

\* An overall score that is left in tenths of a point.
OverallScoreUnscaled(tenths) == {tenths}

\* Math.floor of the weighted sum. The sum is computed in binary floating
\* point, where 0.3 and 0.2 are not exact: when the exact sum is a whole
\* number the computed one may fall just below it, and the floor is then one
\* less. Both outcomes are kept.
OverallScore(tenths) ==
    {tenths \div 10} \cup (IF tenths % 10 = 0 THEN {(tenths \div 10) - 1} ELSE {})

\* The overallScore values an engine can return
EngineScores ==
    [engine \in {"default", "IT", "OT", "Cloud"} |->
        UNION { OverallScore(tenths) : tenths \in WeightedSums(engine) }]

\* item.data.environment || 'unknown' of the records of a batch
ItemEnvironments == {"IT", "unknown"}

\* The batches handed to calculateRiskScores, a record held as the
\* environment it carries
RiskDataInputs == SeqsUpTo(ItemEnvironments, MaxBatch)

\* Object.entries(environmentData) of the default engine: the environments of
\* the batch in order of first appearance
RECURSIVE GroupKeys(_)
GroupKeys(data) ==
    IF data = <<>> THEN <<>>
    ELSE LET front == GroupKeys(SubSeq(data, 1, Len(data) - 1))
             last == data[Len(data)]
         IN  IF last \in Range(front) THEN front ELSE Append(front, last)

\* One RiskScore, held without its factors and trend
RiskScore(engine, environmentType, overallScore) ==
    [id |-> <<environmentType, now>>,
     engine |-> engine,
     environmentType |-> environmentType,
     overallScore |-> overallScore]

\* for (const score of newScores) this.riskScores.set(score.id, score)
CachedRiskScores(cache, scores) == cache \cup { scores[k].id : k \in 1..Len(scores) }

\* calculateRiskScores(environment, sourceType, data) up to the engine's
\* first score. A registered engine returns its one score at once; the
\* default engine has grouped the batch and is about to walk the groups.
\* A score is put in the cache in the step that produces it: nothing reads
\* the cache between the engine's return and the loop of lines 84-88.
calculateRiskScores(environment, sourceType, data) ==
    LET engine == SelectRiskEngine(environment, sourceType)
    IN  /\ riskPending = <<>>        \* no call is running (one thread)
        /\ IF engine = "default"
           THEN /\ riskPending' = GroupKeys(data)
                /\ scored' = <<>>
                /\ riskScores' = riskScores
           ELSE /\ riskPending' = <<>>
                /\ \E overallScore \in EngineScores[engine] :
                      scored' = <<RiskScore(engine, engine, overallScore)>>
                /\ riskScores' = CachedRiskScores(riskScores, scored')
        /\ UNCHANGED <<checked, complianceStatus>>
        /\ NoEmission
        /\ UNCHANGED <<ingestVars, orchVars, policyVars, anomalyCache, strategyVars, pipelineVars, database, callbacks, now>>

\* One round of the default engine's loop over the groups (lines 239-270):
\* the factors are drawn anew and one RiskScore is pushed.
defaultRiskScoreEngine ==
    /\ riskPending # <<>>
    /\ \E overallScore \in EngineScores["default"] :
          scored' = <<RiskScore("default", Head(riskPending), overallScore)>>
    /\ riskScores' = CachedRiskScores(riskScores, scored')
    /\ riskPending' = Tail(riskPending)
    /\ UNCHANGED <<checked, complianceStatus>>
    /\ NoEmission
    /\ UNCHANGED <<ingestVars, orchVars, policyVars, anomalyCache, strategyVars, pipelineVars, database, callbacks, now>>

----------------------------------------------------------------------------
(* Analytics: analysis of a processed batch (analytics.ts 36-67, 96-141) *)

\* What the anomaly detector and the compliance monitor return for a batch
\* (both draw at random): at most one finding
AnalysisInputs ==
    { found \in [anomalies : SeqsUpTo(AnomalyInputs, 1),
                 complianceResults : SeqsUpTo(ComplianceInputs, 1)] :
        Len(found.anomalies) + Len(found.complianceResults) <= 1 }

\* analyzeData: the AnalyticsResult of a batch. The risk scores are those of
\* calculateRiskScores above and are not carried in the result held here.
analyzeData(processedData, found) ==
    [environment |-> processedData.environment,
     sourceType |-> processedData.sourceType,
     anomalies |-> found.anomalies,
     complianceResults |-> found.complianceResults]

\* detectAnomalies, lines 110-112: this.anomalies.set(anomaly.id, anomaly)
CachedAnomalies(cache, found) ==
    cache \cup { found.anomalies[k].id : k \in 1..Len(found.anomalies) }

\* What the detector and the monitor return for a batch with several findings
FindingsInputs ==
    { found \in [anomalies : SeqsUpTo(AnomalyInputs, MaxFindings),
                 complianceResults : SeqsUpTo(ComplianceInputs, MaxFindings)] :
        Len(found.anomalies) + Len(found.complianceResults) <= MaxFindings }

\* handleProcessedData(processedData): analyse, then notify
handleProcessedData(processedData, found) ==
    /\ anomalyCache' = CachedAnomalies(anomalyCache, found)
    /\ analysed' = <<analyzeData(processedData, found)>>
    /\ received' = [NoneReceived(callbacks) EXCEPT
          !["analytics"] = notifyAnalyticsCallbacks(analysed')]
    /\ thrown' = IF Thrown(callbacks["analytics"], analysed') THEN {"analytics"} ELSE {}
    /\ delivered' = <<>>
    /\ processed' = <<>>
    /\ emitted' = <<>>
    /\ running' = Proceed(running, "handleAnalyticsResult")
    /\ UNCHANGED responding
    /\ UNCHANGED <<ingestVars, orchVars, policyVars, riskVars, strategyVars, database, callbacks, now>>

----------------------------------------------------------------------------
(* The strategy registries (part_002 14-15, 48-51, 78-81;                  *)
(* analytics.ts 18-20, 72-127, 146-165)                                    *)

\* The four Maps of strategies: a strategy is held by its name.
StrategyKinds == {"processors", "riskScoreEngines", "anomalyDetectors", "complianceMonitors"}

\* The (environment, sourceType) pairs of the batches
BatchKinds == { <<e, t>> : e \in {"IT", "OT"}, t \in {"Firewall", "SCADA"} }

\* An entry of the enrichers Map: its key, the enricher stored under it (by
\* name, with the pairs its canEnrich accepts), and the time of the
\* registerEnricher call that stored it and of the one that created the key,
\* counted in calls.
EnricherEntry(key, name, accepts, registered, first) ==
    [key |-> key, name |-> name, accepts |-> accepts,
     registered |-> registered, first |-> first]

\* enrichers after the module-level registerEnricher calls (part_002 237-298)
SampleEnrichers ==
    << EnricherEntry("threat-intel", "threat-intel", BatchKinds, 1, 1),
       EnricherEntry("asset-context", "asset-context", BatchKinds, 2, 2) >>

\* The Maps after the module-level registerProcessor and
\* registerRiskScoreEngine calls; no detector or monitor is registered there.
SampleStrategies ==
    [processors |-> processors,
     riskScoreEngines |-> [key \in riskScoreEngines |-> key],
     anomalyDetectors |-> <<>>,
     complianceMonitors |-> <<>>,
     enrichers |-> SampleEnrichers]

\* The keys and the strategies a caller registers
StrategyKeys == {"IT", "IT:Firewall"}

CustomStrategies == {"custom-1", "custom-2"}

\* The environment and the source type of a batch
BatchEnvironments == {"IT", "OT", OtherEnvironment}

BatchSourceTypes == {"Firewall", "SCADA"}

\* Map.get(key): undefined when the key is absent
MapGet(m, k) == IF k \in DOMAIN m THEN m[k] ELSE Undefined

\* a || b, for a that is undefined or an object
OrElse(a, b) == IF a = Undefined THEN b ELSE a

\* A lookup that tries the environment before the exact key.
LookupEnvironmentFirst(registry, environment, sourceType) ==
    LET key == environment \o ":" \o sourceType
    IN  OrElse(OrElse(MapGet(registry, environment), MapGet(registry, key)), "default")

\* registry.get(`${environment}:${sourceType}`) || registry.get(environment)
\*   || the default strategy of the service
Lookup(registry, environment, sourceType) ==
    LET key == environment \o ":" \o sourceType
    IN  OrElse(OrElse(MapGet(registry, key), MapGet(registry, environment)), "default")

\* this.<registry>.set(key, strategy)
registerStrategy(kind, key, strategy) ==
    /\ strategies' = [strategies EXCEPT ![kind] = MapSet(@, key, strategy)]
    /\ selected' = <<>>
    /\ NoEmission
    /\ UNCHANGED <<ingestVars, orchVars, policyVars, riskVars, anomalyCache, pipelineVars, database, callbacks, now>>

registerProcessor(key, processor) == registerStrategy("processors", key, processor)

registerRiskScoreEngine(key, engine) == registerStrategy("riskScoreEngines", key, engine)

registerAnomalyDetector(key, detector) == registerStrategy("anomalyDetectors", key, detector)

registerComplianceMonitor(key, monitor) == registerStrategy("complianceMonitors", key, monitor)

\* One batch of (environment, sourceType) goes through processData and, in
\* the same call, through analyzeData: the four lookups of part_002 50-51
\* and analytics.ts 76-79, 100-103 and 124-127.
lookupStrategies(environment, sourceType) ==
    /\ selected' =
          << [environment |-> environment,
              sourceType |-> sourceType,
              processors |-> Lookup(strategies.processors, environment, sourceType),
              riskScoreEngines |->
                  Lookup(strategies.riskScoreEngines, environment, sourceType),
              anomalyDetectors |->
                  Lookup(strategies.anomalyDetectors, environment, sourceType),
              complianceMonitors |->
                  Lookup(strategies.complianceMonitors, environment, sourceType)] >>
    /\ NoEmission
    /\ UNCHANGED <<ingestVars, orchVars, policyVars, riskVars, anomalyCache, pipelineVars, database, callbacks, now>>
    /\ UNCHANGED strategies

----------------------------------------------------------------------------
(* Compliance checking (analytics.ts 120-141, 314-358) *)

\* const controls = [...] of the default monitor
ControlCatalog ==
    << [frameworkId |-> "nist-csf", controlId |-> "ID.AM-1"],
       [frameworkId |-> "nist-csf", controlId |-> "ID.AM-2"],
       [frameworkId |-> "iso-27001", controlId |-> "A.8.1.1"],
       [frameworkId |-> "iec-62443", controlId |-> "SR 1.1"] >>

\* const statuses = [...]
ControlStatuses == <<"compliant", "non_compliant", "partially_compliant", "not_applicable">>

\* A monitor for which every control that is not non-compliant is compliant.
defaultComplianceMonitorLenient(count, hit, control, status, t) ==
    IF count > 0 /\ hit
    THEN << [compliant |-> ControlStatuses[status] # "non_compliant",
             control |->
                [id |-> ControlCatalog[control].frameworkId \o "-"
                            \o ControlCatalog[control].controlId,
                 frameworkId |-> ControlCatalog[control].frameworkId,
                 controlId |-> ControlCatalog[control].controlId,
                 status |-> ControlStatuses[status],
                 lastAssessedAt |-> t]] >>
    ELSE <<>>

\* defaultComplianceMonitor.checkCompliance(data) for a batch of count
\* records at time t. hit is Math.random() < 0.1; control and status are the
\* indexes Math.floor(Math.random() * length) draws.
defaultComplianceMonitor(count, hit, control, status, t) ==
    IF count > 0 /\ hit
    THEN << [compliant |-> ControlStatuses[status] = "compliant",
             control |->
                [id |-> ControlCatalog[control].frameworkId \o "-"
                            \o ControlCatalog[control].controlId,
                 frameworkId |-> ControlCatalog[control].frameworkId,
                 controlId |-> ControlCatalog[control].controlId,
                 status |-> ControlStatuses[status],
                 lastAssessedAt |-> t]] >>
    ELSE <<>>

\* for (const result of results) if (result.control)
\*     this.complianceStatus.set(result.control.id, result.control)
\* (a result without a control is a record without the field)
RECURSIVE CachedControls(_, _)
CachedControls(cache, results) ==
    IF results = <<>> THEN cache
    ELSE CachedControls(
            IF "control" \in DOMAIN Head(results)
            THEN MapSet(cache, Head(results).control.id, Head(results).control)
            ELSE cache,
            Tail(results))

\* checkCompliance(environment, sourceType, data) for a batch whose monitor
\* is the default one
checkCompliance(environment, sourceType, count, hit, control, status) ==
    /\ Lookup(strategies.complianceMonitors, environment, sourceType) = "default"
    /\ checked' = defaultComplianceMonitor(count, hit, control, status, now)
    /\ complianceStatus' = CachedControls(complianceStatus, checked')
    /\ UNCHANGED <<scored, riskPending, riskScores>>
    /\ NoEmission
    /\ UNCHANGED <<ingestVars, orchVars, policyVars, anomalyCache, strategyVars,
                   pipelineVars, database, callbacks, now>>

----------------------------------------------------------------------------
(* Enrichment with registered enrichers (part_002 56-62, 86-89) *)

\* The enrichers a caller registers, and the keys it registers them under
EnricherInputs ==
    { [name |-> "geo", accepts |-> {<<"IT", "Firewall">>}],
      [name |-> "plant", accepts |-> {<<"OT", "SCADA">>}],
      [name |-> "audit", accepts |-> BatchKinds] }

EnricherKeys == {"threat-intel", "custom"}

EntryIndex(entries, key) ==
    IF \E i \in 1..Len(entries) : entries[i].key = key
    THEN CHOOSE i \in 1..Len(entries) : entries[i].key = key
    ELSE 0

\* the number of registerEnricher calls so far
Registrations(entries) ==
    IF entries = <<>> THEN 0
    ELSE CHOOSE n \in { entries[i].registered : i \in 1..Len(entries) } :
             \A i \in 1..Len(entries) : entries[i].registered <= n

\* this.enrichers.set(key, enricher): a new key goes to the end of the Map,
\* a known key keeps its place and gets the new enricher
EnrichersSet(entries, key, enricher) ==
    LET n == Registrations(entries) + 1
        i == EntryIndex(entries, key)
    IN  IF i = 0
        THEN Append(entries, EnricherEntry(key, enricher.name, enricher.accepts, n, n))
        ELSE [entries EXCEPT ![i] =
                  EnricherEntry(key, enricher.name, enricher.accepts, n, @.first)]

registerEnricher(key, enricher) ==
    /\ Registrations(strategies.enrichers) < MaxRegistrations
    /\ strategies' = [strategies EXCEPT !.enrichers = EnrichersSet(@, key, enricher)]
    /\ selected' = <<>>
    /\ NoEmission
    /\ UNCHANGED <<ingestVars, orchVars, policyVars, riskVars, anomalyCache, pipelineVars, database, callbacks, now>>

\* enricher.canEnrich(environment, sourceType)
canEnrich(entry, environment, sourceType) == <<environment, sourceType>> \in entry.accepts

\* enricher.enrich(data): the module's enrichers annotate the records they
\* know something about; a caller's enricher annotates every record with its
\* name.
enrich(entry, data) ==
    IF entry.name \in {"threat-intel", "asset-context"}
    THEN Enrich(entry.name, data)
    ELSE MapSeq(LAMBDA item : [item EXCEPT !.enriched = TRUE,
                                           !.enrichments = @ \cup {entry.name}],
                data)

\* A loop that hands the normalized list to every enricher.
RECURSIVE ApplicationsOfNormalized(_, _, _, _)
ApplicationsOfNormalized(entries, environment, sourceType, data) ==
    IF entries = <<>> THEN <<>>
    ELSE IF canEnrich(Head(entries), environment, sourceType)
    THEN << [entry |-> Head(entries), input |-> data,
             output |-> enrich(Head(entries), data)] >>
         \o ApplicationsOfNormalized(Tail(entries), environment, sourceType, data)
    ELSE ApplicationsOfNormalized(Tail(entries), environment, sourceType, data)

\* for (const enricher of this.enrichers.values())
\*   if (enricher.canEnrich(environment, sourceType)) enrichedData = enricher.enrich(enrichedData)
\* as the list of the enrich calls made, each with what it got and returned
RECURSIVE Applications(_, _, _, _)
Applications(entries, environment, sourceType, data) ==
    IF entries = <<>> THEN <<>>
    ELSE IF canEnrich(Head(entries), environment, sourceType)
    THEN << [entry |-> Head(entries), input |-> data,
             output |-> enrich(Head(entries), data)] >>
         \o Applications(Tail(entries), environment, sourceType,
                         enrich(Head(entries), data))
    ELSE Applications(Tail(entries), environment, sourceType, data)

\* processData(environment, sourceType, data) with the enrichers registered
\* so far: the ProcessedData goes to the subscribers of Processing.
processData(dataSource, count) ==
    LET environment == dataSource.environment
        sourceType == dataSource.type
        data == [i \in 1..count |-> RawRecord(dataSource, i, now)]
        normalizedData == Normalize(SelectProcessor(environment, sourceType), data)
        applied == Applications(strategies.enrichers, environment, sourceType,
                                normalizedData)
        enrichedData == IF applied = <<>> THEN normalizedData
                        ELSE applied[Len(applied)].output
    IN  /\ processed' = << [environment |-> environment,
                            sourceType |-> sourceType,
                            originalCount |-> Len(data),
                            normalizedCount |-> Len(normalizedData),
                            enrichedCount |-> Len(enrichedData),
                            data |-> enrichedData] >>
        /\ selected' = << [environment |-> environment,
                           sourceType |-> sourceType,
                           normalizedData |-> normalizedData,
                           enrichers |-> applied] >>
        /\ received' = [NoneReceived(callbacks) EXCEPT
                            !["processing"] = notifyProcessingCallbacks(processed')]
        /\ thrown' = IF Thrown(callbacks["processing"], processed')
                     THEN {"processing"} ELSE {}
        /\ delivered' = <<>> /\ analysed' = <<>> /\ emitted' = <<>>
        /\ UNCHANGED strategies
        /\ UNCHANGED <<ingestVars, orchVars, policyVars, riskVars, anomalyCache, pipelineVars, database, callbacks, now>>

----------------------------------------------------------------------------
(* Subscription (analytics.ts 744-746, 170-172; part_002 94-96;            *)
(* orchestration.ts 374-376)                                               *)

\* The callbacks pushed at all stages together
Subscribed == Len(callbacks["ingestion"]) + Len(callbacks["processing"])
                + Len(callbacks["analytics"]) + Len(callbacks["orchestration"])

\* this.<stage>Callbacks.push(callback)
Subscribe(stage, callback) ==
    /\ Subscribed < MaxCallbacks
    /\ callbacks' = [callbacks EXCEPT ![stage] = Append(@, callback)]
    /\ received' = NoneReceived(callbacks')
    /\ thrown' = {}
    /\ delivered' = <<>>
    /\ processed' = <<>>
    /\ analysed' = <<>>
    /\ emitted' = <<>>
    /\ UNCHANGED <<ingestVars, orchVars, riskVars, policyVars, anomalyCache, strategyVars, pipelineVars, database, now>>

onData(callback) == Subscribe("ingestion", callback)

onProcessedData(callback) == Subscribe("processing", callback)

onAnalyticsResult(callback) == Subscribe("analytics", callback)

onOrchestrationResult(callback) == Subscribe("orchestration", callback)

----------------------------------------------------------------------------
(* One batch through the four stages, handler by handler                   *)
(* (analytics.ts 631-647; part_002 30-43)                                  *)

\* The awaited fetch resolves: collectData runs lines 631-643, up to the
\* call of the first data callback
collectDataResume(fetch) ==
    /\ fetch \in inflight
    /\ inflight' = inflight \ {fetch}
    /\ dataBuffer' = MapSet(dataBuffer, fetch.id,
                            Trim(getBufferedData(fetch.id) \o fetch.data, bufferSize))
    /\ delivered' = <<[sourceId |-> fetch.id, data |-> fetch.data]>>
    /\ processed' = <<>>
    /\ analysed' = <<>>
    /\ emitted' = <<>>
    /\ received' = NoneReceived(callbacks)
    /\ thrown' = {}
    /\ running' = Frame(fetch, "handleNewData")
    /\ UNCHANGED responding
    /\ UNCHANGED <<dataSources, collectionIntervals, timers, bufferSize, recNo, now>>
    /\ UNCHANGED <<orchVars, riskVars, policyVars, anomalyCache, strategyVars, database, callbacks>>

\* A handleNewData that processes the batch under the DataSource collectData
\* read before its fetch, registered or not.
handleNewDataOfCaptured ==
    /\ Running("handleNewData")
    /\ processed' = <<ProcessData(running[1].fetch.dataSource.environment,
                                  running[1].fetch.dataSource.type, running[1].fetch.data)>>
    /\ received' = [NoneReceived(callbacks) EXCEPT
          !["processing"] = notifyProcessingCallbacks(processed')]
    /\ thrown' = IF Thrown(callbacks["processing"], processed') THEN {"processing"} ELSE {}
    /\ delivered' = <<>>
    /\ analysed' = <<>>
    /\ emitted' = <<>>
    /\ running' = Proceed(running, "handleProcessedData")
    /\ UNCHANGED responding
    /\ UNCHANGED <<ingestVars, orchVars, riskVars, policyVars, anomalyCache, strategyVars,
                   database, callbacks, now>>

\* handleNewData(sourceId, data), the first data callback (part_002 30-43):
\* it returns at once for a source that is no longer registered
handleNewData ==
    /\ Running("handleNewData")
    /\ processed' = HandleNewData(dataSources, running[1].fetch.id, running[1].fetch.data)
    /\ received' = [NoneReceived(callbacks) EXCEPT
          !["processing"] = notifyProcessingCallbacks(processed')]
    /\ thrown' = IF Thrown(callbacks["processing"], processed') THEN {"processing"} ELSE {}
    /\ delivered' = <<>>
    /\ analysed' = <<>>
    /\ emitted' = <<>>
    /\ running' = Proceed(running, IF processed' = <<>> THEN "return"
                                   ELSE "handleProcessedData")
    /\ UNCHANGED responding
    /\ UNCHANGED <<ingestVars, orchVars, riskVars, policyVars, anomalyCache, strategyVars,
                   database, callbacks, now>>

\* The rest of notifyDataCallbacks, then collectData's lines 645-647: the
\* callbacks pushed by onData are handed the batch and the DataSource read
\* before the await is written back with the time of this moment
collectDataReturn ==
    /\ Running("return")
    /\ LET fetch == running[1].fetch
       IN  /\ received' = [NoneReceived(callbacks) EXCEPT
                  !["ingestion"] = notifyDataCallbacks(FALSE,
                                      [sourceId |-> fetch.id, data |-> fetch.data])]
           /\ dataSources' = MapSet(dataSources, fetch.id,
                                    [fetch.dataSource EXCEPT !.lastSyncTime = now])
    /\ thrown' = {}
    /\ delivered' = <<>>
    /\ processed' = <<>>
    /\ analysed' = <<>>
    /\ emitted' = <<>>
    /\ running' = <<>>
    /\ UNCHANGED responding
    /\ UNCHANGED <<collectionIntervals, timers, dataBuffer, bufferSize, inflight, recNo, now>>
    /\ UNCHANGED <<orchVars, riskVars, policyVars, anomalyCache, strategyVars, database, callbacks>>

\* The sources registered while batches are followed through the stages
PipelineSources ==
    { dataSource \in DataSourceInputs :
        dataSource.status = "active" /\ dataSource.pollingInterval # 0 }

----------------------------------------------------------------------------
(* Persistence: DatabaseService (orchestration.ts 723-2194)                *)

\* private db: D1Database | null = null
Null == "null"

\* The handle a caller passes to initialize
D1 == "D1"

\* The ids of entity rows and of child rows (events, widgets)
RowIds == {"r1", "r2"}

ChildIds == {"c1"}

\* The public operations: the table each works on and the shape of its
\* body. "all" selects rows, "first" selects the row of an id, "insert"
\* inserts a row, "update" selects the row and then updates it, "delete"
\* deletes it with its child rows, and the "...Child" shapes work on a child
\* row and then on its parent row.
Operation(name, table, shape) == [name |-> name, table |-> table, shape |-> shape]

Operations ==
    { Operation("getDataSources", "data_sources", "all"),
      Operation("getDataSource", "data_sources", "first"),
      Operation("createDataSource", "data_sources", "insert"),
      Operation("updateDataSource", "data_sources", "update"),
      Operation("deleteDataSource", "data_sources", "delete"),
      Operation("getAssets", "assets", "all"),
      Operation("getAsset", "assets", "first"),
      Operation("createAsset", "assets", "insert"),
      Operation("updateAsset", "assets", "update"),
      Operation("deleteAsset", "assets", "delete"),
      Operation("getRiskScores", "risk_scores", "all"),
      Operation("getRiskScoresByEnvironment", "risk_scores", "all"),
      Operation("getRiskScoresByAsset", "risk_scores", "all"),
      Operation("createRiskScore", "risk_scores", "insert"),
      Operation("getAnomalies", "anomalies", "all"),
      Operation("getAnomaliesByStatus", "anomalies", "all"),
      Operation("createAnomaly", "anomalies", "insert"),
      Operation("updateAnomaly", "anomalies", "update"),
      Operation("getAnomaly", "anomalies", "first"),
      Operation("getIncidents", "incidents", "all"),
      Operation("getIncidentsByStatus", "incidents", "all"),
      Operation("getIncident", "incidents", "first"),
      Operation("createIncident", "incidents", "insert"),
      Operation("updateIncident", "incidents", "update"),
      Operation("addIncidentEvent", "incidents", "addChild"),
      Operation("getUsers", "users", "all"),
      Operation("getUser", "users", "first"),
      Operation("getUserByUsername", "users", "first"),
      Operation("createUser", "users", "insert"),
      Operation("updateUser", "users", "update"),
      Operation("deleteUser", "users", "delete"),
      Operation("getDashboards", "dashboards", "all"),
      Operation("getDashboardsByOwner", "dashboards", "all"),
      Operation("getDashboard", "dashboards", "first"),
      Operation("createDashboard", "dashboards", "insert"),
      Operation("updateDashboard", "dashboards", "update"),
      Operation("deleteDashboard", "dashboards", "delete"),
      Operation("addDashboardWidget", "dashboards", "addChild"),
      Operation("updateDashboardWidget", "dashboards", "updateChild"),
      Operation("deleteDashboardWidget", "dashboards", "deleteChild") }

\* The status values a caller writes; Undefined is a field left out of the
\* Partial<...> passed to an update
Statuses == {"open", "closed"}

\* The assignees a caller passes: a user, or '' for nobody
Assignees == {"", "u1"}

Patches == [status : Statuses \cup {Undefined}, assignedTo : Assignees \cup {Undefined}]

\* The patches that leave the assignee out, and the one that leaves all out
StatusPatches == { patch \in Patches : patch.assignedTo = Undefined }

NoPatch == [status |-> Undefined, assignedTo |-> Undefined]

\* incident.assignedTo || null, as bound to the assigned_to column
AssignedTo(assignedTo) == IF assignedTo \in {Undefined, ""} THEN Null ELSE assignedTo

\* if (incident.status === 'resolved' || incident.status === 'closed')
TerminalStatuses == {"resolved", "closed"}

\* A row of an entity table and a row of dashboard_widgets. resolved_at and
\* assigned_to are columns of incidents, null in a row just inserted without
\* them. The rows of incident_events are only ever inserted and selected for
\* a timeline: the store's statements show them, its state does not hold them.
Row(table, id, created, updated, status) ==
    [table |-> table, id |-> id, created_at |-> created, updated_at |-> updated,
     status |-> status, resolved_at |-> NoTime, assigned_to |-> Null]

Child(id, table, parent) == [id |-> id, table |-> table, parent |-> parent]

\* One statement handed to the store
Statement(verb, table) == [verb |-> verb, table |-> table]

\* INSERT INTO incident_events of an event updateIncident records:
\* `Status changed from ${existing.status} to ${incident.status}`,
\* `Assigned to ${incident.assignedTo || 'nobody'}`
EventStatement(type, from, to) ==
    [verb |-> "INSERT", table |-> "incident_events", type |-> type, from |-> from, to |-> to]

\* The table that holds the child rows of a table's rows
ChildTable(table) ==
    IF table = "incidents" THEN "incident_events"
    ELSE IF table = "dashboards" THEN "dashboard_widgets"
    ELSE "none"

\* SELECT * FROM table WHERE id = ?
Select(store, table, id) == { row \in store.rows : row.table = table /\ row.id = id }

\* SELECT ... FROM the child table WHERE id = ?
SelectChild(store, id) == { child \in store.children : child.id = id }

\* An update that takes the row to exist.
ExistingAssumed(store, table, id) == <<[status |-> "open", assigned_to |-> Null]>>

\* const existing = await this.get...(id): the row read, none for null
Existing(store, table, id) ==
    IF Select(store, table, id) = {} THEN <<>>
    ELSE <<CHOOSE row \in Select(store, table, id) : TRUE>>

\* A call's outcomes
NotInitialized == "Database service not initialized"

\* A checkInitialized that lets every call through.
CheckInitializedSkipped(handle) == TRUE

\* checkInitialized(): if (!this.db) throw new Error('Database service not initialized')
CheckInitialized(handle) == handle # Null

\* A call suspended at an await: the operation, the id it works on, what it
\* was passed, what it has read, and the statement it issues next
Suspended(op, id, patch, existing, stamp, pc) ==
    [op |-> op, id |-> id, patch |-> patch, existing |-> existing,
     assignee |-> Undefined, stamp |-> stamp, pc |-> pc]

\* if (incident.status !== undefined && incident.status !== existing.status)
StatusChanged(call) ==
    /\ call.op.table = "incidents"
    /\ call.patch.status # Undefined
    /\ call.patch.status # call.existing

\* if (incident.assignedTo !== undefined && incident.assignedTo !== existing.assignedTo)
AssigneeChanged(call) ==
    /\ call.op.table = "incidents"
    /\ call.patch.assignedTo # Undefined
    /\ call.patch.assignedTo # call.assignee

\* The step's statements and what it returns or throws; "pending" when the
\* call is suspended
Outcome(store, statements, result) ==
    [store EXCEPT !.statements = statements, !.outcome = result]

\* An id no child row has: `event-${Date.now()}-${random}`, `widget-...`
UnusedChildIds(store) == ChildIds \ { child.id : child \in store.children }

FreshChildId(store) == CHOOSE id \in UnusedChildIds(store) : TRUE

\* An id no row of the table has: `ds-${Date.now()}-${random}`, ...; the
\* first such id, "none" when every id is taken
FreshRowId(store, table) ==
    IF "r1" \notin { row.id : row \in { r \in store.rows : r.table = table } } THEN "r1"
    ELSE IF "r2" \notin { row.id : row \in { r \in store.rows : r.table = table } } THEN "r2"
    ELSE "none"

\* UPDATE table SET updated_at = stamp WHERE id = ?
Touched(rows, table, id, stamp) ==
    { IF row.table = table /\ row.id = id THEN [row EXCEPT !.updated_at = stamp] ELSE row :
        row \in rows }

\* UPDATE table SET <the fields passed>, updated_at = stamp WHERE id = ?
Updated(rows, table, id, patch, stamp) ==
    { IF row.table = table /\ row.id = id
      THEN [row EXCEPT !.updated_at = stamp,
                       !.status = IF patch.status # Undefined THEN patch.status ELSE @,
                       !.assigned_to = IF table = "incidents"
                                          /\ patch.assignedTo # Undefined
                                       THEN AssignedTo(patch.assignedTo) ELSE @,
                       !.resolved_at = IF table = "incidents"
                                          /\ patch.status \in TerminalStatuses
                                       THEN stamp ELSE @]
      ELSE row :
        row \in rows }

\* The tables whose rows a delete removes before the row itself, in the
\* order of its statements
Dependents(table) ==
    IF table = "assets" THEN <<"vulnerabilities", "patches", "configurations">>
    ELSE IF table = "dashboards" THEN <<"dashboard_widgets">>
    ELSE <<>>

\* Where a delete goes on after the n-th of its dependent tables
AfterDependents(table, n) ==
    IF n < Len(Dependents(table)) THEN Dependents(table)[n + 1] ELSE "deleteRow"

\* DELETE FROM table WHERE asset_id = ? / WHERE dashboard_id = ?
Orphaned(children, table, parent) ==
    { child \in children : ~(child.table = table /\ child.parent = parent) }

\* A public operation up to its first await that suspends it. t is the
\* clock, timestamp the event.timestamp a caller passes to addIncidentEvent.
Begin(store, op, id, patch, timestamp, t) ==
    CASE op.shape = "all" ->
            Outcome(store, <<Statement("SELECT", op.table)>>, "rows")
      [] op.shape = "first" ->
            Outcome(store, <<Statement("SELECT", op.table)>>,
                    IF Select(store, op.table, id) = {} THEN "null" ELSE "row")
      [] op.shape = "insert" ->
            \* createIncident inserts its 'detection' event as well
            Outcome([store EXCEPT
                        !.rows = @ \cup {[Row(op.table, id, t, t,
                                    IF patch.status # Undefined THEN patch.status ELSE "open")
                                  EXCEPT !.assigned_to =
                                    IF op.table = "incidents"
                                    THEN AssignedTo(patch.assignedTo) ELSE @]}],
                    IF op.table = "incidents"
                    THEN <<Statement("INSERT", op.table), Statement("INSERT", "incident_events")>>
                    ELSE <<Statement("INSERT", op.table)>>,
                    "created")
      [] op.shape = "update" ->
            \* const existing = await this.get...(id); if (!existing) return null
            IF Existing(store, op.table, id) = <<>>
            THEN Outcome(store, <<Statement("SELECT", op.table)>>, "null")
            ELSE Outcome([store EXCEPT !.calls = @ \cup
                            {[Suspended(op, id, patch,
                                        Existing(store, op.table, id)[1].status,
                                        NoTime, "update")
                              EXCEPT !.assignee = Existing(store, op.table, id)[1].assigned_to]}],
                         <<Statement("SELECT", op.table)>>, "pending")
      [] op.shape = "delete" ->
            \* deleteAsset and deleteDashboard delete the dependent rows
            \* first, one awaited statement a table
            IF Dependents(op.table) = <<>>
            THEN Outcome([store EXCEPT !.rows = @ \ Select(store, op.table, id)],
                         <<Statement("DELETE", op.table)>>, "deleted")
            ELSE Outcome([store EXCEPT
                            !.children = Orphaned(@, Dependents(op.table)[1], id),
                            !.calls = @ \cup
                                {Suspended(op, id, patch, Undefined, NoTime,
                                           AfterDependents(op.table, 1))}],
                         <<Statement("DELETE", Dependents(op.table)[1])>>, "pending")
      [] op.shape = "addChild" ->
            \* INSERT INTO the child table, whatever the parent id; the parent
            \* is updated after the await
            Outcome([store EXCEPT
                        !.children = IF op.table = "dashboards"
                                     THEN @ \cup {Child(FreshChildId(store),
                                                        ChildTable(op.table), id)}
                                     ELSE @,
                        !.calls = @ \cup
                            {Suspended(op, id, patch, Undefined,
                                       IF op.table = "incidents" THEN timestamp ELSE NoTime,
                                       "touch")}],
                    <<Statement("INSERT", ChildTable(op.table))>>, "pending")
      [] op.shape = "updateChild" ->
            \* if (updates.length === 0) return true
            IF patch.status = Undefined
            THEN Outcome(store, <<>>, "true")
            ELSE Outcome([store EXCEPT !.calls = @ \cup
                            {Suspended(op, id, patch, Undefined, NoTime, "parent")}],
                         <<Statement("UPDATE", ChildTable(op.table))>>, "pending")
      [] op.shape = "deleteChild" ->
            \* SELECT dashboard_id FROM dashboard_widgets WHERE id = ?
            Outcome([store EXCEPT !.calls = @ \cup
                        {Suspended(op, id, patch,
                                   IF SelectChild(store, id) = {} THEN Undefined
                                   ELSE (CHOOSE child \in SelectChild(store, id) : TRUE).parent,
                                   NoTime, "deleteChild")}],
                    <<Statement("SELECT", ChildTable(op.table))>>, "pending")

\* A suspended call goes on: its next statement, up to its next await. t is
\* the clock.
Continue(store, call, t) ==
    LET rest == [store EXCEPT !.calls = @ \ {call}]
        next(id, existing, stamp, pc) ==
            [rest EXCEPT !.calls = @ \cup
                {[Suspended(call.op, id, call.patch, existing, stamp, pc)
                  EXCEPT !.assignee = call.assignee]}]
    IN  CASE call.pc = "update" ->
                \* const now = new Date().toISOString(); UPDATE ... WHERE id = ?
                IF StatusChanged(call) \/ AssigneeChanged(call)
                THEN Outcome([next(call.id, call.existing, t,
                                   IF StatusChanged(call) THEN "event" ELSE "assignment")
                              EXCEPT
                                 !.rows = Updated(@, call.op.table, call.id, call.patch, t)],
                             <<Statement("UPDATE", call.op.table)>>, "pending")
                ELSE Outcome([rest EXCEPT
                                 !.rows = Updated(@, call.op.table, call.id, call.patch, t)],
                             <<Statement("UPDATE", call.op.table)>>, "updated")
          [] call.pc = "event" ->
                \* updateIncident calls addIncidentEvent with timestamp: new Date(now)
                Outcome(next(call.id, call.existing, call.stamp, "touch"),
                        <<EventStatement("status_change", call.existing, call.patch.status)>>,
                        "pending")
          [] call.pc = "assignment" ->
                Outcome(next(call.id, call.existing, call.stamp, "touchAssignment"),
                        <<EventStatement("assignment", Undefined,
                                         IF call.patch.assignedTo = "" THEN "nobody"
                                         ELSE call.patch.assignedTo)>>,
                        "pending")
          [] call.pc = "touch" ->
                \* addIncidentEvent binds event.timestamp, the widget
                \* operations bind new Date(); updateIncident goes on to its
                \* assignment event
                IF call.op.shape = "update" /\ AssigneeChanged(call)
                THEN Outcome([next(call.id, call.existing, call.stamp, "assignment") EXCEPT
                                 !.rows = Touched(@, call.op.table, call.id, call.stamp)],
                             <<Statement("UPDATE", call.op.table)>>, "pending")
                ELSE Outcome([rest EXCEPT
                                 !.rows = Touched(@, call.op.table, call.id,
                                                  IF call.stamp = NoTime THEN t ELSE call.stamp)],
                             <<Statement("UPDATE", call.op.table)>>, "done")
          [] call.pc = "touchAssignment" ->
                Outcome([rest EXCEPT
                            !.rows = Touched(@, call.op.table, call.id, call.stamp)],
                        <<Statement("UPDATE", call.op.table)>>, "done")
          [] call.pc = "parent" ->
                \* SELECT dashboard_id FROM dashboard_widgets WHERE id = ?
                IF SelectChild(store, call.id) = {}
                THEN Outcome(rest, <<Statement("SELECT", "dashboard_widgets")>>, "done")
                ELSE Outcome(next((CHOOSE child \in SelectChild(store, call.id) : TRUE).parent,
                                  Undefined, NoTime, "touch"),
                             <<Statement("SELECT", "dashboard_widgets")>>, "pending")
          [] call.pc \in {"patches", "configurations"} ->
                \* DELETE FROM patches / configurations WHERE asset_id = ?
                Outcome([next(call.id, Undefined, NoTime,
                              IF call.pc = "patches" THEN AfterDependents(call.op.table, 2)
                              ELSE AfterDependents(call.op.table, 3)) EXCEPT
                            !.children = Orphaned(@, call.pc, call.id)],
                        <<Statement("DELETE", call.pc)>>, "pending")
          [] call.pc = "deleteRow" ->
                \* DELETE FROM assets / dashboards WHERE id = ?
                Outcome([rest EXCEPT !.rows = @ \ Select(store, call.op.table, call.id)],
                        <<Statement("DELETE", call.op.table)>>, "deleted")
          [] call.pc = "deleteChild" ->
                \* DELETE FROM dashboard_widgets WHERE id = ?
                IF call.existing = Undefined
                THEN Outcome([rest EXCEPT !.children = @ \ SelectChild(store, call.id)],
                             <<Statement("DELETE", "dashboard_widgets")>>, "done")
                ELSE Outcome([next(call.existing, Undefined, NoTime, "touch") EXCEPT
                                 !.children = @ \ SelectChild(store, call.id)],
                             <<Statement("DELETE", "dashboard_widgets")>>, "pending")

\* initialize(db)
initialize(handle) ==
    /\ database' = [database EXCEPT !.db = handle, !.statements = <<>>,
                                    !.outcome = "initialized"]
    /\ NoEmission
    /\ UNCHANGED <<ingestVars, orchVars, policyVars, riskVars, anomalyCache, strategyVars,
                   pipelineVars, callbacks, now>>

\* The operations with more than one awaited statement
Suspends(op) ==
    \/ op.shape \in {"update", "addChild", "updateChild", "deleteChild"}
    \/ op.shape = "delete" /\ Dependents(op.table) # <<>>

\* The ids an operation of this shape can be called with while the store
\* holds at most MaxRows rows: an insert draws an id no row of the table has
CallableAmong(store, op, id, pending) ==
    /\ op.shape = "insert" =>
          /\ id = FreshRowId(store, op.table)
          /\ Cardinality(store.rows) < MaxRows
    /\ op.shape = "addChild" /\ op.table = "dashboards" => UnusedChildIds(store) # {}
    /\ Suspends(op) => Cardinality(store.calls) < pending

CallableWith(store, op, id) == CallableAmong(store, op, id, MaxCalls)

\* What an operation reads of its arguments: the id (none for a select of
\* all rows), the fields to write, and the event's timestamp
IdsFor(op) ==
    IF op.shape = "all" THEN {Undefined}
    ELSE IF op.shape \in {"updateChild", "deleteChild"} THEN ChildIds
    ELSE RowIds

PatchesFor(op) ==
    IF op.shape \in {"insert", "update", "updateChild"} THEN StatusPatches
    ELSE {NoPatch}

TimestampsFor(op) ==
    IF op.name = "addIncidentEvent" THEN 1..MaxClock ELSE {NoTime}

\* A caller calls a public operation of the service
CallAmong(op, id, patch, timestamp, pending) ==
    /\ CheckInitialized(database.db) => CallableAmong(database, op, id, pending)
    /\ database' =
          IF ~CheckInitialized(database.db)
          THEN Outcome(database, <<>>, NotInitialized)
          ELSE Begin(database, op, id, patch, timestamp, now)
    /\ NoEmission
    /\ UNCHANGED <<ingestVars, orchVars, policyVars, riskVars, anomalyCache, strategyVars,
                   pipelineVars, callbacks, now>>

Call(op, id, patch, timestamp) == CallAmong(op, id, patch, timestamp, MaxCalls)

\* An awaited statement of a suspended call resolves
Resume(call) ==
    /\ call \in database.calls
    /\ database' = Continue(database, call, now)
    /\ NoEmission
    /\ UNCHANGED <<ingestVars, orchVars, policyVars, riskVars, anomalyCache, strategyVars,
                   pipelineVars, callbacks, now>>

----------------------------------------------------------------------------
(* Specifications *)

Init ==
    /\ dataSources = <<>>
    /\ collectionIntervals = <<>>
    /\ timers = EmptyBag
    /\ dataBuffer = <<>>
    /\ bufferSize = DefaultBufferSize
    /\ inflight = {}
    /\ recNo = 0
    /\ delivered = <<>>
    /\ processed = <<>>
    /\ playbooks = SamplePlaybooks
    /\ policies = SamplePolicies
    /\ rulePending = <<>>
    /\ incidents = <<>>
    /\ emitted = <<>>
    /\ scored = <<>>
    /\ riskPending = <<>>
    /\ riskScores = {}
    /\ checked = <<>>
    /\ complianceStatus = <<>>
    /\ anomalyCache = {}
    /\ analysed = <<>>
    /\ callbacks = [s \in Stages |-> <<>>]
    /\ received = [s \in Stages |-> <<>>]
    /\ thrown = {}
    /\ strategies = SampleStrategies
    /\ selected = <<>>
    /\ running = <<>>
    /\ responding = <<>>
    /\ database = [db |-> Null, rows |-> {}, children |-> {}, calls |-> {},
                   statements |-> <<>>, outcome |-> "none"]
    /\ now = 1

\* The ingestion stage with Processing subscribed to it
Next ==
    \/ \E ds \in DataSourceInputs : registerDataSource(ds)
    \/ \E ds \in DataSourceInputs : updateDataSource(ds)
    \/ \E id \in SourceIds : removeDataSource(id)
    \/ \E id \in SourceIds : startCollection(id)
    \/ \E id \in SourceIds : stopCollection(id)
    \/ \E id \in SourceIds : clearBuffer(id)
    \/ \E size \in BufferSizes : setBufferSize(size)
    \/ \E id \in SourceIds, count \in 1..MaxBatch : collectDataBegin(id, count)
    \/ \E fetch \in inflight : collectDataEnd(fetch)

Spec == Init /\ [][Next]_vars

\* The collection tasks of the ingestion service: sources come and go, their
\* tasks are started and stopped, and the timers fire with one record a tick;
\* a fetch ends with its records or with an error.
NextTasks ==
    \/ \E ds \in DataSourceInputs : registerDataSource(ds)
    \/ \E ds \in DataSourceInputs : updateDataSource(ds)
    \/ \E id \in SourceIds : removeDataSource(id)
    \/ \E id \in SourceIds : startCollection(id)
    \/ \E id \in SourceIds : stopCollection(id)
    \/ \E id \in SourceIds : collectDataBegin(id, 1)
    \/ \E fetch \in inflight : collectDataEnd(fetch)
    \/ \E fetch \in inflight : collectDataFailed(fetch)

SpecTasks == Init /\ [][NextTasks]_vars

\* Strategies are registered and batches look them up
NextStrategies ==
    \/ \E key \in StrategyKeys, processor \in CustomStrategies :
          registerProcessor(key, processor)
    \/ \E key \in StrategyKeys, engine \in CustomStrategies :
          registerRiskScoreEngine(key, engine)
    \/ \E key \in StrategyKeys, detector \in CustomStrategies :
          registerAnomalyDetector(key, detector)
    \/ \E key \in StrategyKeys, monitor \in CustomStrategies :
          registerComplianceMonitor(key, monitor)
    \/ \E environment \in BatchEnvironments, sourceType \in BatchSourceTypes :
          lookupStrategies(environment, sourceType)

SpecStrategies == Init /\ [][NextStrategies]_vars

\* Enrichers are registered and batches are processed
NextEnrich ==
    \/ \E key \in EnricherKeys, enricher \in EnricherInputs :
          registerEnricher(key, enricher)
    \/ \E dataSource \in DataSourceInputs, count \in 1..MaxBatch :
          processData(dataSource, count)

SpecEnrich == Init /\ [][NextEnrich]_vars

\* The rules whose condition may come out met for an IT or an OT result
OrderedRuleIds == {"ns-rule-1", "ot-rule-1"}

\* Orchestration with subscribers of its own, a batch of an OT source going
\* from Processing to Analytics and on to Orchestration
NextOrder ==
    \/ \E callback \in CallbackBehaviours : onOrchestrationResult(callback)
    \/ \E policy \in PolicyInputs : policy.environment = "OT" /\ registerPolicy(policy)
    \/ \E playbook \in PlaybookInputs : registerPlaybook(playbook)
    \/ \E dataSource \in DataSourceInputs :
          dataSource.environment = "OT" /\ processData(dataSource, 1)
    \/ \E processedData \in Range(processed), found \in FindingsInputs :
          handleProcessedData(processedData, found)
    \/ \E analyticsResult \in Range(analysed), conds \in SUBSET OrderedRuleIds :
          handleAnalyticsResult(analyticsResult, conds)

SpecOrder == Init /\ [][NextOrder]_vars

\* Orchestration fed by Analytics alone
\* Ticks followed handler by handler, with the calls a caller can make in
\* between
NextPipeline ==
    \/ EventLoopFree(running) /\ \E dataSource \in PipelineSources :
          registerDataSource(dataSource)
    \/ EventLoopFree(running) /\ \E id \in SourceIds : removeDataSource(id)
    \/ EventLoopFree(running) /\ \E id \in SourceIds : stopCollection(id)
    \/ EventLoopFree(running) /\ \E id \in SourceIds : collectDataStart(id, 1, MaxPending)
    \/ EventLoopFree(running) /\ \E fetch \in inflight : collectDataResume(fetch)
    \/ EventLoopFree(running) /\ \E callback \in CallbackBehaviours :
          onOrchestrationResult(callback)
    \/ handleNewData
    \/ Running("handleProcessedData")
          /\ \E processedData \in Range(processed), found \in AnalysisInputs :
                handleProcessedData(processedData, found)
    \/ Running("handleAnalyticsResult")
          /\ \E analyticsResult \in Range(analysed) :
                handleAnalyticsResult(analyticsResult, {})
    \/ collectDataReturn

SpecPipeline == Init /\ [][NextPipeline]_vars

\* Batches of every size followed through the stages, one fetch at a time,
\* while sources are registered and removed
NextHandle ==
    \/ EventLoopFree(running) /\ \E dataSource \in PipelineSources :
          registerDataSource(dataSource)
    \/ EventLoopFree(running) /\ \E id \in SourceIds : removeDataSource(id)
    \/ EventLoopFree(running) /\ \E id \in SourceIds, count \in 1..MaxBatch :
          collectDataStart(id, count, MaxInflight)
    \/ EventLoopFree(running) /\ \E fetch \in inflight : collectDataResume(fetch)
    \/ handleNewData
    \/ Running("handleProcessedData")
          /\ \E processedData \in Range(processed), found \in AnalysisInputs :
                handleProcessedData(processedData, found)
    \/ Running("handleAnalyticsResult")
          /\ \E analyticsResult \in Range(analysed) :
                handleAnalyticsResult(analyticsResult, {})
    \/ collectDataReturn

SpecHandle == Init /\ [][NextHandle]_vars

\* Callers of the DatabaseService
NextPersist ==
    \/ initialize(D1)
    \/ \E op \in Operations :
          \E id \in IdsFor(op), patch \in PatchesFor(op), timestamp \in TimestampsFor(op) :
              Call(op, id, patch, timestamp)
    \/ \E call \in database.calls : Resume(call)
    \/ AdvanceClock

SpecPersist == Init /\ [][NextPersist]_vars

\* Callers that create and delete assets and dashboards and add and delete
\* widgets, two calls at a time
NextCascade ==
    \/ initialize(D1)
    \/ \E op \in Operations :
          /\ op.table \in {"assets", "dashboards"}
          /\ op.shape \in {"insert", "delete", "addChild", "deleteChild"}
          /\ \E id \in IdsFor(op) :
                CallAmong(op, id, NoPatch, NoTime, MaxPending)
    \/ \E call \in database.calls : Resume(call)

SpecCascade == Init /\ [][NextCascade]_vars

\* Incidents in both stores: persisted incidents are created and updated,
\* incidents in memory are opened by a delivery and updated by their callers
NextResolved ==
    \/ initialize(D1)
    \/ \E op \in Operations :
          /\ op.table = "incidents"
          /\ op.shape \in {"insert", "update"}
          /\ \E id \in IdsFor(op), patch \in StatusPatches : Call(op, id, patch, NoTime)
    \/ \E call \in database.calls : Resume(call)
    \/ \E d \in FindingDeliveries :
          /\ d.result.complianceResults = <<>>
          /\ handleAnalyticsResult(d.result, d.conds)
    \/ \E incident \in IncidentInputs :
          /\ \E i \in 1..Len(incidents) : incident.timeline = incidents[i].timeline
          /\ updateIncident(incident)
    \/ AdvanceClock

SpecResolved == Init /\ [][NextResolved]_vars

\* Incidents are created, and updated by callers whose calls interleave at
\* their awaits
NextInterleave ==
    \/ initialize(D1)
    \/ \E op \in Operations :
          /\ op.table = "incidents"
          /\ op.shape \in {"insert", "update"}
          /\ \E id \in IdsFor(op), patch \in Patches :
                CallAmong(op, id, patch, NoTime, MaxPending)
    \/ \E call \in database.calls : Resume(call)

SpecInterleave == Init /\ [][NextInterleave]_vars

\* Batches of every size are checked by the default monitor, whose trial
\* comes out either way
NextCompliance ==
    \E environment \in {"IT", "OT"}, count \in 0..MaxBatch, hit \in BOOLEAN,
       control \in 1..Len(ControlCatalog), status \in 1..Len(ControlStatuses) :
        checkCompliance(environment, "Firewall", count, hit, control, status)

SpecCompliance == Init /\ [][NextCompliance]_vars

\* Callers that name entities, known or not: updates of the persisted
\* entities, and the in-memory operations on sources and incidents
NextUnknown ==
    \/ initialize(D1)
    \/ \E op \in Operations :
          /\ op.shape \in {"insert", "update"}
          /\ \E id \in IdsFor(op) : Call(op, id, [NoPatch EXCEPT !.status = "closed"], NoTime)
    \/ \E call \in database.calls : Resume(call)
    \/ \E dataSource \in PipelineSources :
          dataSource.id = "s1" /\ registerDataSource(dataSource)
    \/ \E dataSource \in DataSourceInputs : updateDataSource(dataSource)
    \/ \E id \in SourceIds : startCollection(id)
    \/ \E d \in FindingDeliveries :
          /\ d.result.complianceResults = <<>>
          /\ handleAnalyticsResult(d.result, d.conds)
    \/ \E i \in 1..Len(incidents), event \in EventInputs :
          addIncidentEvent(incidents[i].id, event)
    \/ \E event \in EventInputs : addIncidentEvent(UnknownIncident, event)

SpecUnknown == Init /\ [][NextUnknown]_vars

NextDeliver ==
    \/ \E d \in Deliveries : handleAnalyticsResult(d.result, d.conds)
    \/ \E pb \in PlaybookInputs : registerPlaybook(pb)
    \/ AdvanceClock

SpecDeliver == Init /\ [][NextDeliver]_vars

\* Orchestration under the sample playbooks, with the operators' calls on the
\* incident store
NextOrch ==
    \/ \E d \in Deliveries : handleAnalyticsResult(d.result, d.conds)
    \/ \E incident \in IncidentInputs : updateIncident(incident)
    \/ \E i \in 1..Len(incidents), event \in EventInputs :
          addIncidentEvent(incidents[i].id, event)
    \/ \E event \in EventInputs : addIncidentEvent(UnknownIncident, event)
    \/ AdvanceClock

SpecOrch == Init /\ [][NextOrch]_vars

\* The risk engines applied to batches of every environment, within one
\* millisecond
NextRisk ==
    \/ \E environment \in EnvironmentType \cup {OtherEnvironment}, data \in RiskDataInputs :
          calculateRiskScores(environment, "SIEM", data)
    \/ defaultRiskScoreEngine

SpecRisk == Init /\ [][NextRisk]_vars

\* The risk-score cache over time: IT batches and batches of an environment
\* without an engine of its own are scored while the clock goes on
NextRiskCache ==
    \/ \E environment \in {"IT", OtherEnvironment}, data \in RiskDataInputs :
          calculateRiskScores(environment, "SIEM", data)
    \/ defaultRiskScoreEngine
    \/ AdvanceClock

SpecRiskCache == Init /\ [][NextRiskCache]_vars

\* The four stages with subscribers of their own, each stage driven by what
\* the stage before it emits
NextNotify ==
    \/ \E callback \in CallbackBehaviours : onData(callback)
    \/ \E callback \in CallbackBehaviours : onProcessedData(callback)
    \/ \E callback \in CallbackBehaviours : onAnalyticsResult(callback)
    \/ \E callback \in CallbackBehaviours : onOrchestrationResult(callback)
    \/ \E ds \in DataSourceInputs : ds.id = "s1" /\ registerDataSource(ds)
    \/ \E count \in 1..MaxBatch : collectDataBegin("s1", count)
    \/ \E fetch \in inflight : collectDataEnd(fetch)
    \/ \E processedData \in Range(processed), found \in AnalysisInputs :
          handleProcessedData(processedData, found)
    \/ \E analyticsResult \in Range(analysed), conds \in SUBSET RuleIds :
          handleAnalyticsResult(analyticsResult, conds)

SpecNotify == Init /\ [][NextNotify]_vars

\* The draws a playbook execution may need: one per step of some playbook,
\* or none
StepDraws == {<<>>} \cup UNION { Draws(playbooks[i].steps) : i \in 1..Len(playbooks) }

\* The ids of the actions of the rule enforcePolicies has come to
PendingActionIds ==
    IF rulePending = <<>> THEN {}
    ELSE { Head(rulePending).rule.actions[k].id :
             k \in 1..Len(Head(rulePending).rule.actions) }

\* Orchestration's responses one at a time, as handleAnalyticsResult calls
\* them (lines 34, 41, 47), with the outcome of every step, condition and
\* action drawn. Orchestration runs on one thread: nothing but the clock
\* moves while enforcePolicies walks the rules.
NextExecute ==
    \/ \E anomaly \in AnomalyInputs, draws \in StepDraws :
          /\ rulePending = <<>>
          /\ anomaly.severity \in {"critical", "high"}
          /\ respondToAnomaly(anomaly, draws)
    \/ \E complianceResult \in ComplianceInputs, draws \in StepDraws :
          /\ rulePending = <<>>
          /\ ~complianceResult.compliant
          /\ complianceResult.control # Undefined
          /\ respondToComplianceIssue(complianceResult, draws)
    \/ \E analyticsResult \in AnalyticsResultsEnforced : enforcePolicies(analyticsResult)
    \/ \E conditionMet \in BOOLEAN, failing \in SUBSET PendingActionIds :
          enforcePolicyRule(conditionMet, failing)
    \/ \E pb \in PlaybookInputs : rulePending = <<>> /\ registerPlaybook(pb)
    \/ \E policy \in PolicyInputs : registerPolicy(policy)
    \/ AdvanceClock

SpecExecute == Init /\ [][NextExecute]_vars

\* Anomalies are responded to, step by step of respondToAnomaly, while
\* subscribers come and the clock goes on
NextRespond ==
    \/ \E anomaly \in AnomalyInputs, draws \in StepDraws :
          /\ anomaly.severity \in {"critical", "high"}
          /\ respondToAnomalyBegin(anomaly, draws)
    \/ respondToAnomalyNotify
    \/ \E callback \in CallbackBehaviours :
          responding = <<>> /\ onOrchestrationResult(callback)
    \/ responding = <<>> /\ AdvanceClock

SpecRespond == Init /\ [][NextRespond]_vars

\* Orchestration fed with the findings of Analytics
NextFindings ==
    \/ \E d \in FindingDeliveries : handleAnalyticsResult(d.result, d.conds)
    \/ \E pb \in PlaybookInputs : registerPlaybook(pb)
    \/ AdvanceClock

SpecFindings == Init /\ [][NextFindings]_vars

----------------------------------------------------------------------------
(* Properties *)

\* The incidents (as indices) whose relatedAnomalies contain the anomaly id
Referencing(incs, anomalyId) ==
    { i \in 1..Len(incs) : anomalyId \in Range(incs[i].relatedAnomalies) }

\* How many playbook results of a list answer the anomaly
Responses(results, anomalyId) ==
    Cardinality({ k \in 1..Len(results) :
                    results[k].type = "playbook" /\ results[k].context = anomalyId })

\* C1: under deliveries of AnalyticsResults no anomaly id is ever referenced
\* by two incidents, and every anomaly a delivery responds to is referenced by
\* exactly one incident afterwards: the first response creates that incident
\* (a detection event and one action event), every further response appends
\* one event to the same incident, and incidents are created for first
\* responses only.
C1_OneIncidentPerAnomaly ==
    [][ /\ \A a \in AnomalyInputs :
             LET before == Referencing(incidents, a.id)
                 after == Referencing(incidents', a.id)
                 n == Responses(emitted', a.id)
             IN  /\ Cardinality(after) <= 1
                 /\ n = 0 => after = before
                 /\ n > 0 =>
                      /\ Cardinality(after) = 1
                      /\ \A j \in after :
                            IF before = {}
                            THEN /\ j > Len(incidents)
                                 /\ incidents'[j].relatedAnomalies = <<a.id>>
                                 /\ Len(incidents'[j].timeline) = n + 1
                            ELSE /\ after = before
                                 /\ incidents'[j].id = incidents[j].id
                                 /\ IsPrefix(incidents[j].timeline, incidents'[j].timeline)
                                 /\ Len(incidents'[j].timeline) = Len(incidents[j].timeline) + n
        /\ Len(incidents') = Len(incidents)
              + Cardinality({ a \in AnomalyInputs :
                                /\ Referencing(incidents, a.id) = {}
                                /\ Responses(emitted', a.id) > 0 })
      ]_vars

\* C1 witness: the last delivery responded to an anomaly that already had its
\* incident, whose timeline now holds the detection and two action events.
C1_Redelivered ==
    \E i \in 1..Len(incidents) :
        /\ Len(incidents[i].timeline) = 3
        /\ Responses(emitted, incidents[i].relatedAnomalies[1]) > 0
        /\ Referencing(incidents, incidents[i].relatedAnomalies[1]) = {i}

\* getDataSource(id) is undefined, no collection task exists for id and
\* getBufferedData(id) is empty
Gone(id) ==
    /\ id \notin DOMAIN dataSources
    /\ id \notin DOMAIN collectionIntervals
    /\ getBufferedData(id) = <<>>

\* C2: removeDataSource(id) leaves id gone, and an id that is gone stays gone
\* over every step that is not a registerDataSource of that id, the completion
\* of a fetch that was in flight included.
C2_RemovedStaysGone ==
    [][ \A id \in SourceIds :
          /\ removeDataSource(id) => Gone(id)'
          /\ ( /\ Gone(id)
               /\ ~ \E ds \in DataSourceInputs : ds.id = id /\ registerDataSource(ds) )
             => Gone(id)'
      ]_vars

\* C3: when registerDataSource returns for a source that is active and has a
\* polling interval, a collection task of that period exists for it; when
\* removeDataSource returns, none exists for the id; and a tick (its start
\* and the completion of its fetch) neither ends a task nor creates one, so
\* the task recurs and a removed source's task does not come back by itself.
C3_CollectionStartsAndStops ==
    [][ /\ \A ds \in DataSourceInputs :
             ( /\ ds.status = "active"
               /\ ds.pollingInterval # 0
               /\ registerDataSource(ds) )
             => /\ ds.id \in DOMAIN collectionIntervals'
                /\ collectionIntervals'[ds.id] = ds.pollingInterval
        /\ \A id \in SourceIds :
             id \in DOMAIN collectionIntervals' => ~removeDataSource(id)
        /\ collectionIntervals' # collectionIntervals
           => ~ ( \/ \E id \in SourceIds, count \in 1..MaxBatch : collectDataBegin(id, count)
                  \/ \E fetch \in inflight : collectDataEnd(fetch) )
      ]_vars

\* C3 witness: one source is registered, active and polling, with its task
\* running, while the other has been removed with a fetch still in flight and
\* has no task.
C3_StartedAndStopped ==
    /\ \E id \in DOMAIN dataSources :
          /\ dataSources[id].status = "active"
          /\ dataSources[id].pollingInterval # 0
          /\ id \in DOMAIN collectionIntervals
    /\ \E fetch \in inflight :
          /\ fetch.id \notin DOMAIN dataSources
          /\ fetch.id \notin DOMAIN collectionIntervals

\* C4: when a tick's fetch completes, the source's buffer becomes the old
\* buffer followed by the batch, the records of the batch in the order they
\* were fetched, cut down to its newest bufferSize records when it holds more;
\* the subscribers are handed the whole batch.
C4_AppendsThenDropsOldest ==
    [][ \A fetch \in inflight :
          collectDataEnd(fetch) =>
            LET appended == getBufferedData(fetch.id) \o fetch.data
                kept == Min(Len(appended), bufferSize)
            IN  /\ \A i, j \in 1..Len(fetch.data) :
                      i < j => fetch.data[i].n < fetch.data[j].n
                /\ Len(dataBuffer'[fetch.id]) = kept
                /\ dataBuffer'[fetch.id] =
                      SubSeq(appended, Len(appended) - kept + 1, Len(appended))
                /\ delivered' = <<[sourceId |-> fetch.id, data |-> fetch.data]>>
      ]_vars

\* C4 witness: a tick has just delivered a batch larger than the capacity,
\* and the buffer holds exactly capacity records, the newest of the batch.
C4_TrimmedTick ==
    /\ delivered # <<>>
    /\ bufferSize >= 1
    /\ Len(delivered[1].data) > bufferSize
    /\ Len(getBufferedData(delivered[1].sourceId)) = bufferSize
    /\ IsSuffix(getBufferedData(delivered[1].sourceId), delivered[1].data)

\* C5: in every reachable state every source's buffer holds at most
\* bufferSize records.
C5_BufferWithinCapacity ==
    \A id \in DOMAIN dataBuffer : Len(dataBuffer[id]) <= bufferSize

\* C6: over every step, an incident that stays in the store has its old
\* timeline as a prefix of its new one.
C6_TimelineAppendOnly ==
    [][ \A i \in 1..Len(incidents), j \in 1..Len(incidents') :
          incidents'[j].id = incidents[i].id
            => IsPrefix(incidents[i].timeline, incidents'[j].timeline)
      ]_vars

\* C7: in every reachable state the timestamps of every incident's timeline
\* are non-decreasing in timeline order.
C7_TimestampsNonDecreasing ==
    \A i \in 1..Len(incidents) :
        \A k \in 1..(Len(incidents[i].timeline) - 1) :
            incidents[i].timeline[k].timestamp <= incidents[i].timeline[k + 1].timestamp

\* C8: over every step, the status of an incident that stays in the store
\* does not move to an earlier state of new, assigned, investigating,
\* contained, remediated, resolved, closed.
C8_StatusMonotonic ==
    [][ \A i \in 1..Len(incidents), j \in 1..Len(incidents') :
          incidents'[j].id = incidents[i].id
            => StatusRank(incidents[i].status) <= StatusRank(incidents'[j].status)
      ]_vars

\* C9: every ProcessedData that Processing emits has enrichedCount equal to
\* normalizedCount, and carries that many records.
C9_EnrichersKeepCount ==
    \A k \in 1..Len(processed) :
        /\ processed[k].enrichedCount = processed[k].normalizedCount
        /\ Len(processed[k].data) = processed[k].enrichedCount

\* C9 witness: a batch of two records has been processed and an enricher
\* has annotated its records.
C9_EnrichedBatch ==
    /\ processed # <<>>
    /\ processed[1].normalizedCount = 2
    /\ \A i \in 1..Len(processed[1].data) :
          /\ processed[1].data[i].enriched
          /\ processed[1].data[i].enrichments # {}

\* C10: every RiskScore the default, IT, OT and Cloud engines produce has an
\* integer overallScore between 0 and 100.
C10_OverallScoreInRange ==
    \A k \in 1..Len(scored) :
        /\ scored[k].engine \in {"default", "IT", "OT", "Cloud"}
        /\ scored[k].overallScore \in 0..100

\* C10 witness: the default engine has scored the second group of a batch,
\* at the top of its range.
C10_DefaultEngineScored ==
    /\ scored # <<>>
    /\ scored[1].engine = "default"
    /\ scored[1].environmentType = "unknown"
    /\ scored[1].overallScore = 59
    /\ riskPending = <<>>

\* What a stage passed to its notify loop in a state
Emission(stage) ==
    CASE stage = "ingestion" -> delivered
      [] stage = "processing" -> processed
      [] stage = "analytics" -> analysed
      [] stage = "orchestration" -> emitted

\* C11: at each of the four stages, whatever the subscribers' callbacks do,
\* no exception leaves the notify loop, every subscriber (those registered
\* after a throwing one included) is handed exactly what the stage emitted in
\* that step, and the stage's own writes for the batch are made: Ingestion
\* has buffered the batch, set the source's lastSyncTime and not set its
\* status to 'error'; Analytics has cached the anomalies of its result;
\* Orchestration has an incident for every anomaly it answered.
C11_SubscriberFailuresContained ==
    [][ /\ thrown' = {}
        /\ \A stage \in Stages :
             \A i \in 1..Len(callbacks'[stage]) :
                received'[stage][i] = Emission(stage)'
        /\ \A k \in 1..Len(delivered') :
             LET id == delivered'[k].sourceId
             IN  /\ dataSources'[id].lastSyncTime = now
                 /\ dataSources'[id].status # "error"
                 /\ IsSuffix(dataBuffer'[id], getBufferedData(id) \o delivered'[k].data)
        /\ \A k \in 1..Len(analysed') :
             \A j \in 1..Len(analysed'[k].anomalies) :
                analysed'[k].anomalies[j].id \in anomalyCache'
        /\ \A k \in 1..Len(emitted') :
             (emitted'[k].type = "playbook"
                /\ emitted'[k].context \in { a.id : a \in AnomalyInputs })
             => Referencing(incidents', emitted'[k].context) # {}
      ]_vars

\* C11 witness: a tick has completed for a source with two onData
\* subscribers, the first of which throws: the second was handed the batch,
\* and the source has its lastSyncTime and its status.
C11_ThrowerThenSubscriber ==
    /\ callbacks["ingestion"] = <<"throws", "returns">>
    /\ delivered # <<>>
    /\ received["ingestion"][2] = delivered
    /\ processed # <<>>
    /\ dataSources[delivered[1].sourceId].lastSyncTime = now
    /\ dataSources[delivered[1].sourceId].status = "active"
    /\ thrown = {}

\* The registered playbook a result names
PlaybookNamed(name) == CHOOSE i \in 1..Len(playbooks) : playbooks[i].name = name

\* C12: every playbook result carries the action results of a prefix of the
\* playbook's steps, in step order; no step before the last executed one both
\* failed and is critical; execution stopped short of the last step only
\* after a step that failed and is critical (so a failed non-critical step
\* does not stop it); and success is true exactly when every step of the
\* playbook was executed and succeeded.
C12_PlaybookRunsToFirstCriticalFailure ==
    \A k \in 1..Len(emitted) :
        emitted[k].type = "playbook" =>
            LET steps == playbooks[PlaybookNamed(emitted[k].name)].steps
                actions == emitted[k].actions
                n == Len(actions)
            IN  /\ n <= Len(steps)
                /\ \A i \in 1..n : actions[i].name = steps[i].name
                /\ \A i \in 1..(n - 1) : actions[i].success \/ ~steps[i].critical
                /\ n < Len(steps) => n > 0 /\ ~actions[n].success /\ steps[n].critical
                /\ emitted[k].success <=>
                      (n = Len(steps) /\ \A i \in 1..n : actions[i].success)

\* C12 witness: a run of Ransomware Response went past its failed second
\* step, which is not critical, and stopped after its failed third step,
\* which is.
C12_StoppedAtThirdStep ==
    /\ emitted # <<>>
    /\ emitted[1].name = "Ransomware Response"
    /\ Len(emitted[1].actions) = 3
    /\ emitted[1].actions[1].success
    /\ ~emitted[1].actions[2].success
    /\ ~emitted[1].actions[3].success
    /\ ~emitted[1].success

\* Some registered playbook of type 'anomaly' has a trigger with the
\* anomaly's type and severity
Triggered(anomaly) ==
    \E i \in 1..Len(playbooks) :
        /\ playbooks[i].type = "anomaly"
        /\ \E k \in 1..Len(playbooks[i].triggers) :
              /\ playbooks[i].triggers[k].type = anomaly.type
              /\ playbooks[i].triggers[k].severity = anomaly.severity

\* How often an anomaly occurs in a list of anomalies
Occurrences(anomalies, anomaly) ==
    Cardinality({ k \in 1..Len(anomalies) : anomalies[k] = anomaly })

\* C13: when an AnalyticsResult is handled, an anomaly of severity
\* 'critical' or 'high' for which a registered 'anomaly' playbook has a
\* trigger of its type and severity gets one playbook result per occurrence
\* and has its incident afterwards; every other anomaly gets no result and
\* the incidents that reference it, if any, are left as they were; and when
\* no anomaly of the result is answered the incident store is unchanged.
C13_RespondsExactlyToTriggeredSevere ==
    [][ \A d \in FindingDeliveries :
          handleAnalyticsResult(d.result, d.conds) =>
            /\ \A a \in AnomalyInputs :
                 IF a.severity \in {"critical", "high"} /\ Triggered(a)
                 THEN /\ Responses(emitted', a.id) = Occurrences(d.result.anomalies, a)
                      /\ Occurrences(d.result.anomalies, a) > 0
                           => Referencing(incidents', a.id) # {}
                 ELSE /\ Responses(emitted', a.id) = 0
                      /\ Referencing(incidents', a.id) = Referencing(incidents, a.id)
                      /\ \A i \in Referencing(incidents, a.id) : incidents'[i] = incidents[i]
            /\ (\A k \in 1..Len(d.result.anomalies) :
                  ~ ( /\ d.result.anomalies[k].severity \in {"critical", "high"}
                      /\ Triggered(d.result.anomalies[k]) ))
               => incidents' = incidents
      ]_vars

\* C13 witness: with a playbook registered whose triggers name user/high and
\* network/medium anomalies, a delivery has been answered for the user/high
\* anomaly alone: it has its incident, and no incident references the
\* network/medium anomaly or the application/high one.
C13_AnsweredHighOnly ==
    /\ \E i \in 1..Len(playbooks) : playbooks[i].id = "account-lockdown"
    /\ Len(emitted) = 1
    /\ emitted[1].name = "Account Lockdown"
    /\ emitted[1].context = "a2"
    /\ Referencing(incidents, "a2") # {}
    /\ Referencing(incidents, "a3") = {}
    /\ Referencing(incidents, "a4") = {}

\* The results of a list that answer the anomaly, in order
ResultsFor(results, anomalyId) ==
    SelectSeq(results, LAMBDA r : r.type = "playbook" /\ r.context = anomalyId)

\* C14: with the sample Ransomware Response playbook registered, a delivery
\* that carries once a 'network' anomaly of severity 'critical' which no
\* incident references yet emits for it one result, of type 'playbook' and
\* name 'Ransomware Response', and adds one incident with severity
\* 'critical', status 'new', relatedAnomalies [id] and a timeline of exactly
\* a 'detection' event followed by an 'action' event.
C14_RansomwareResponseCreatesIncident ==
    [][ \A d \in FindingDeliveries, a \in AnomalyInputs :
          ( /\ a.type = "network"
            /\ a.severity = "critical"
            /\ Occurrences(d.result.anomalies, a) = 1
            /\ Referencing(incidents, a.id) = {}
            /\ \E i \in 1..Len(playbooks) : playbooks[i] = SamplePlaybooks[1]
            /\ handleAnalyticsResult(d.result, d.conds) )
          => /\ Len(ResultsFor(emitted', a.id)) = 1
             /\ ResultsFor(emitted', a.id)[1].name = "Ransomware Response"
             /\ Cardinality(Referencing(incidents', a.id)) = 1
             /\ \A j \in Referencing(incidents', a.id) :
                   /\ j > Len(incidents)
                   /\ incidents'[j].severity = "critical"
                   /\ incidents'[j].status = "new"
                   /\ incidents'[j].relatedAnomalies = <<a.id>>
                   /\ Len(incidents'[j].timeline) = 2
                   /\ incidents'[j].timeline[1].type = "detection"
                   /\ incidents'[j].timeline[2].type = "action"
      ]_vars

\* C14 witness: the network/critical anomaly has been delivered for the first
\* time, alone: one Ransomware Response result and one incident, with its
\* two events.
C14_FirstCriticalNetworkAnomaly ==
    /\ Len(emitted) = 1
    /\ emitted[1].name = "Ransomware Response"
    /\ emitted[1].context = "a1"
    /\ Len(incidents) = 1
    /\ incidents[1].relatedAnomalies = <<"a1">>
    /\ Len(incidents[1].timeline) = 2

\* A registered playbook of type 'compliance' has a trigger with the
\* frameworkId of the result's control
FrameworkTriggered(complianceResult) ==
    \E i \in 1..Len(playbooks) :
        /\ playbooks[i].type = "compliance"
        /\ \E k \in 1..Len(playbooks[i].triggers) :
              playbooks[i].triggers[k].frameworkId = complianceResult.control

\* The playbook results of a list that answer no anomaly
ComplianceResponses(results) ==
    SelectSeq(results, LAMBDA r :
        r.type = "playbook" /\ r.context \notin { a.id : a \in AnomalyInputs })

\* C15: when an AnalyticsResult is handled, each of its compliance results
\* that is non-compliant, carries a control and whose framework a registered
\* 'compliance' playbook has a trigger for gets one result, of that playbook
\* (the first such in registration order); every other compliance result
\* gets none; and the compliance responses touch no incident: incidents that
\* none of the result's anomalies references stay as they are, none is added
\* beyond one per anomaly, and without anomalies the store is unchanged.
C15_AnswersTriggeredComplianceIssues ==
    [][ \A d \in FindingDeliveries :
          handleAnalyticsResult(d.result, d.conds) =>
            LET crs == d.result.complianceResults
                answered == SelectSeq(crs, LAMBDA cr :
                               ~cr.compliant /\ cr.control # Undefined /\ FrameworkTriggered(cr))
                responses == ComplianceResponses(emitted')
            IN  /\ Len(responses) = Len(answered)
                /\ \A k \in 1..Len(answered) :
                      /\ responses[k].context = answered[k].control
                      /\ \E i \in 1..Len(playbooks) :
                            /\ playbooks[i].name = responses[k].name
                            /\ playbooks[i].type = "compliance"
                            /\ \E t \in 1..Len(playbooks[i].triggers) :
                                  playbooks[i].triggers[t].frameworkId = answered[k].control
                /\ Len(incidents') <= Len(incidents) + Len(d.result.anomalies)
                /\ \A i \in 1..Len(incidents) :
                      (\A k \in 1..Len(d.result.anomalies) :
                          i \notin Referencing(incidents, d.result.anomalies[k].id))
                      => incidents'[i] = incidents[i]
                /\ d.result.anomalies = <<>> => incidents' = incidents
      ]_vars

\* C15 witness: with an incident in the store, a delivery has been answered
\* by one Compliance Remediation result for the nist-csf control alone, and
\* the store holds that one incident.
C15_ComplianceIssueAnswered ==
    /\ Len(emitted) = 1
    /\ emitted[1].name = "Compliance Remediation"
    /\ emitted[1].context = "nist-csf"
    /\ Len(incidents) = 1

\* Where an entry of rulePending stands in the registered policies
PolicyIndex(entry) == CHOOSE i \in 1..Len(policies) : policies[i].name = entry.policy

RuleIndex(entry) ==
    CHOOSE j \in 1..Len(policies[PolicyIndex(entry)].rules) :
        policies[PolicyIndex(entry)].rules[j] = entry.rule

\* C16: enforcePolicies, called for a result with or without findings, walks
\* the rules of exactly the policies that are 'active' and whose environment
\* is the result's or 'all', in policy and rule order; a rule that is 'active'
\* and whose condition is met yields one result of type 'policy', named after
\* policy and rule, with one action result per action of the rule in order,
\* each action executed whatever the outcome of the ones before it, and
\* success exactly when all succeeded; an inactive rule and a rule whose
\* condition is not met yield nothing; and no step of the enforcement
\* changes an incident.
C16_EnforcesApplicableActiveRules ==
    [][ /\ \A r \in AnalyticsResultsEnforced :
             enforcePolicies(r) =>
               LET applicable == { i \in 1..Len(policies) :
                                     /\ policies[i].status = "active"
                                     /\ policies[i].environment \in {r.environment, "all"} }
                   walked == rulePending'
               IN  /\ \A k \in 1..Len(walked) :
                         /\ walked[k].environment = r.environment
                         /\ \E i \in applicable : \E j \in 1..Len(policies[i].rules) :
                               /\ walked[k].policy = policies[i].name
                               /\ walked[k].rule = policies[i].rules[j]
                   /\ \A i \in applicable : \A j \in 1..Len(policies[i].rules) :
                         Cardinality({ k \in 1..Len(walked) :
                                         /\ walked[k].policy = policies[i].name
                                         /\ walked[k].rule = policies[i].rules[j] }) = 1
                   /\ \A k, l \in 1..Len(walked) :
                         k < l =>
                           \/ PolicyIndex(walked[k]) < PolicyIndex(walked[l])
                           \/ /\ PolicyIndex(walked[k]) = PolicyIndex(walked[l])
                              /\ RuleIndex(walked[k]) < RuleIndex(walked[l])
                   /\ emitted' = <<>>
                   /\ incidents' = incidents
        /\ rulePending # <<>> =>
             LET entry == Head(rulePending)
                 actions == entry.rule.actions
             IN  /\ incidents' = incidents
                 /\ entry.rule.status # "active" => emitted' = <<>>
                 /\ enforcePolicyRule(FALSE, {}) => emitted' = <<>>
                 /\ \A failing \in SUBSET PendingActionIds :
                       (entry.rule.status = "active" /\ enforcePolicyRule(TRUE, failing))
                       => /\ Len(emitted') = 1
                          /\ emitted'[1].type = "policy"
                          /\ emitted'[1].name = entry.policy \o ":" \o entry.rule.name
                          /\ Len(emitted'[1].actions) = Len(actions)
                          /\ \A i \in 1..Len(actions) :
                                /\ emitted'[1].actions[i].type = actions[i].type
                                /\ emitted'[1].actions[i].success <=> actions[i].id \notin failing
                          /\ emitted'[1].success <=> failing = {}
      ]_vars

\* C16 witness: with the Network Segmentation policy switched off, the OT
\* Isolation policy registered and an incident in the store, the rule of
\* Cloud Access Control has been enforced for a Cloud result and the walk is
\* over: the rule's first action failed and its second was executed all the
\* same.
C16_ActionAfterFailedAction ==
    /\ \E i \in 1..Len(policies) : policies[i].status = "inactive"
    /\ \E i \in 1..Len(policies) : policies[i].environment = "OT"
    /\ incidents # <<>>
    /\ rulePending = <<>>
    /\ Len(emitted) = 1
    /\ emitted[1].type = "policy"
    /\ emitted[1].name = "Cloud Access Control:Enforce MFA for Admin Access"
    /\ emitted[1].context = "Cloud"
    /\ Len(emitted[1].actions) = 2
    /\ ~emitted[1].actions[1].success
    /\ emitted[1].actions[2].success
    /\ ~emitted[1].success

----------------------------------------------------------------------------
(* Starting and stopping a collection *)

\* the state of the ingestion service other than its collection tasks
IngestionData == <<dataSources, dataBuffer, bufferSize, inflight, recNo>>

\* the number of live timers that call collectData(id)
LiveTimers(ts, id) ==
    LET Sum[S \in SUBSET TimersOf(ts, id)] ==
            IF S = {} THEN 0
            ELSE LET timer == CHOOSE x \in S : TRUE
                 IN  CopiesIn(timer, ts) + Sum[S \ {timer}]
    IN  Sum[TimersOf(ts, id)]

\* C17: startCollection(id) on a registered source leaves exactly one
\* collection task for id, whatever tasks existed before (so also after an
\* earlier startCollection(id)): one live timer, the one the Map holds, with
\* the source's period. stopCollection(id) leaves none, neither in the Map nor
\* running. Neither call touches another source's task, the sources, the
\* buffers or the fetches under way, and stopCollection(id) on a source
\* without a task changes nothing at all.
C17_StartStopIdempotent ==
    [][\A id \in SourceIds :
          /\ startCollection(id) /\ id \in DOMAIN dataSources
                => /\ id \in DOMAIN collectionIntervals'
                   /\ LiveTimers(timers', id) = 1
                   /\ TimersOf(timers', id) = {Timer(id, collectionIntervals'[id])}
                   /\ collectionIntervals'[id] =
                         (IF dataSources[id].pollingInterval # 0
                          THEN dataSources[id].pollingInterval ELSE 60)
          /\ stopCollection(id)
                => /\ id \notin DOMAIN collectionIntervals'
                   /\ LiveTimers(timers', id) = 0
          /\ stopCollection(id) /\ id \notin DOMAIN collectionIntervals
                => /\ collectionIntervals' = collectionIntervals
                   /\ timers' = timers
          /\ startCollection(id) \/ stopCollection(id)
                => /\ UNCHANGED IngestionData
                   /\ \A other \in SourceIds \ {id} :
                         /\ TimersOf(timers', other) = TimersOf(timers, other)
                         /\ LiveTimers(timers', other) = LiveTimers(timers, other)
                         /\ (other \in DOMAIN collectionIntervals')
                               = (other \in DOMAIN collectionIntervals)
                         /\ other \in DOMAIN collectionIntervals
                               => collectionIntervals'[other] = collectionIntervals[other]
      ]_vars

\* C17 witness: both sources are registered and collecting, each with exactly
\* one live timer, the first with the default period of a source without a
\* polling interval (reached only by startCollection) while a fetch is under way.
C17_StartedTwiceRunsOnce ==
    /\ DOMAIN dataSources = SourceIds
    /\ DOMAIN collectionIntervals = SourceIds
    /\ \A id \in SourceIds : LiveTimers(timers, id) = 1
    /\ \E id \in SourceIds :
          /\ dataSources[id].pollingInterval = 0
          /\ collectionIntervals[id] = 60
    /\ inflight # {}

----------------------------------------------------------------------------
(* A failed fetch *)

----------------------------------------------------------------------------
(* One tick *)

\* C19: when a tick completes with its records while the buffer capacity is
\* at least 1, the source is registered with its lastSyncTime set to the time
\* of the completion, and its buffer ends with a record of that tick whose
\* sourceId is the source's id: whether or not the source was active, changed
\* or removed while the fetch was under way.
C19_TickSetsSyncTimeAndBuffers ==
    [][\A fetch \in inflight :
          collectDataEnd(fetch) /\ bufferSize >= 1
            => /\ fetch.id \in DOMAIN dataSources'
               /\ dataSources'[fetch.id].lastSyncTime # NoTime
               /\ dataSources'[fetch.id].lastSyncTime = now
               /\ getBufferedData(fetch.id)' # <<>>
               /\ LET buffer == getBufferedData(fetch.id)'
                      last == buffer[Len(buffer)]
                  IN  /\ last.sourceId = fetch.id
                      /\ last.sourceId = dataSources'[fetch.id].id
                      /\ last = fetch.data[Len(fetch.data)]
      ]_vars

\* C19 witness: the first tick of a registered active source has just
\* completed with two records while the capacity is 1: the source's
\* lastSyncTime is set and its buffer holds one record, of that source.
C19_FirstTickCompleted ==
    /\ bufferSize = 1
    /\ Len(delivered) = 1
    /\ Len(delivered[1].data) = 2
    /\ LET id == delivered[1].sourceId
       IN  /\ id \in DOMAIN dataSources
           /\ dataSources[id].status = "active"
           /\ dataSources[id].pollingInterval = 30
           /\ dataSources[id].lastSyncTime # NoTime
           /\ Len(getBufferedData(id)) = 1
           /\ getBufferedData(id)[1].sourceId = id
           /\ getBufferedData(id)[1] = delivered[1].data[2]

----------------------------------------------------------------------------
(* Strategy lookup *)

\* the strategy of a registry a batch of (environment, sourceType) is due
Cascade(registry, environment, sourceType) ==
    IF (environment \o ":" \o sourceType) \in DOMAIN registry
    THEN registry[environment \o ":" \o sourceType]
    ELSE IF environment \in DOMAIN registry
    THEN registry[environment]
    ELSE "default"

\* C20: for its batch a step uses, of each of the four registries, the
\* strategy registered under '<environment>:<sourceType>' if there is one,
\* otherwise the one registered under '<environment>', otherwise the default;
\* each lookup reads its own registry only. Registering a strategy puts it
\* under its key in its own registry, in the place of the one that was
\* there, and leaves every other key and every other registry as it was.
C20_StrategyLookupCascades ==
    [][ /\ selected' # <<>>
             => /\ strategies' = strategies
                /\ \A kind \in StrategyKinds :
                      selected'[1][kind] =
                          Cascade(strategies'[kind], selected'[1].environment,
                                  selected'[1].sourceType)
        /\ \A kind \in StrategyKinds, key \in StrategyKeys, strategy \in CustomStrategies :
              registerStrategy(kind, key, strategy)
                => /\ DOMAIN strategies'[kind] = DOMAIN strategies[kind] \cup {key}
                   /\ strategies'[kind][key] = strategy
                   /\ \A k \in DOMAIN strategies[kind] \ {key} :
                         strategies'[kind][k] = strategies[kind][k]
                   /\ \A other \in StrategyKinds \ {kind} :
                         strategies'[other] = strategies[other]
      ]_vars

\* C20 witness: an IT firewall batch has been looked up after the IT
\* processor of the module was replaced and a processor registered for IT
\* firewalls, a detector registered for IT and no monitor at all: the exact
\* key wins for the processor over the replacing IT processor, the module's
\* IT engine scores, the IT detector detects and the monitor is the default.
C20_ExactEnvironmentAndDefault ==
    /\ selected # <<>>
    /\ selected[1].environment = "IT" /\ selected[1].sourceType = "Firewall"
    /\ strategies.processors["IT"] = "custom-2"
    /\ selected[1].processors = "custom-1"
    /\ "IT:Firewall" \notin DOMAIN strategies.riskScoreEngines
    /\ selected[1].riskScoreEngines = "IT"
    /\ "IT:Firewall" \notin DOMAIN strategies.anomalyDetectors
    /\ selected[1].anomalyDetectors = "custom-2"
    /\ strategies.complianceMonitors = <<>>
    /\ selected[1].complianceMonitors = "default"

----------------------------------------------------------------------------
(* Enrichment order *)

\* the entries of the enrichers Map whose canEnrich accepts the batch
Accepting(environment, sourceType) ==
    { i \in 1..Len(strategies.enrichers) :
        canEnrich(strategies.enrichers[i], environment, sourceType) }

\* For the batch of the last step, every registered enricher that accepts the
\* batch was applied exactly once and no other was; the first got the
\* normalized list, each later one what the one before it returned, and the
\* last one's list is the batch's data.
AppliedOnceAndChained ==
    selected # <<>> =>
        LET applied == selected[1].enrichers
            accepting == Accepting(selected[1].environment, selected[1].sourceType)
        IN  /\ Len(applied) = Cardinality(accepting)
            /\ \A i \in accepting :
                  Cardinality({ k \in 1..Len(applied) :
                                  applied[k].entry = strategies.enrichers[i] }) = 1
            /\ \A k \in 1..Len(applied) :
                  /\ applied[k].input = (IF k = 1 THEN selected[1].normalizedData
                                         ELSE applied[k - 1].output)
                  /\ applied[k].output = enrich(applied[k].entry, applied[k].input)
            /\ processed[1].data = (IF applied = <<>> THEN selected[1].normalizedData
                                    ELSE applied[Len(applied)].output)

\* C21 as stated: the enrichers applied to a batch are applied in the order
\* of the registerEnricher calls that registered them.
C21_AppliedInRegistrationOrder ==
    /\ AppliedOnceAndChained
    /\ selected # <<>> =>
          \A k \in 1..(Len(selected[1].enrichers) - 1) :
              selected[1].enrichers[k].entry.registered
                  < selected[1].enrichers[k + 1].entry.registered

\* C21, amended: the enrichers applied to a batch are applied in the order in
\* which their keys were first registered (an enricher registered under a key
\* that exists takes the place of the one it replaces); each accepting
\* enricher is applied exactly once, the others not at all, and each gets the
\* list the one before it returned.
C21_AppliedInKeyOrder ==
    /\ AppliedOnceAndChained
    /\ selected # <<>> =>
          \A k \in 1..(Len(selected[1].enrichers) - 1) :
              selected[1].enrichers[k].entry.first
                  < selected[1].enrichers[k + 1].entry.first

\* C21 witness: a firewall batch went through two of the three registered
\* enrichers, the first of them registered last, in the place of the module's
\* threat-intel enricher, while the enricher that accepts SCADA batches only
\* was left out.
C21_ReplacedEnricherAppliedFirst ==
    /\ selected # <<>>
    /\ selected[1].sourceType = "Firewall"
    /\ Len(strategies.enrichers) = 3
    /\ strategies.enrichers[1].name = "audit"
    /\ strategies.enrichers[1].registered = 4
    /\ strategies.enrichers[3].name = "plant"
    /\ Len(selected[1].enrichers) = 2
    /\ selected[1].enrichers[1].entry.name = "audit"
    /\ selected[1].enrichers[2].entry.name = "asset-context"
    /\ selected[1].enrichers[2].input # selected[1].normalizedData

----------------------------------------------------------------------------
(* The risk-score cache *)

\* a step of calculateRiskScores that pushes a score
ScorePushed ==
    /\ now' = now
    /\ scored' # <<>>
    /\ <<scored, riskPending, riskScores>>' # <<scored, riskPending, riskScores>>

\* C22: every score an analytics invocation produces goes into the cache
\* under an id the cache does not hold yet: no entry is replaced, and the
\* cache grows by one for every score, so that it holds every score ever
\* emitted and as many entries as scores were emitted.
C22_RiskScoreCacheNeverOverwritten ==
    [][ScorePushed
          => /\ scored'[1].id \notin riskScores
             /\ riskScores \subseteq riskScores'
             /\ Cardinality(riskScores') = Cardinality(riskScores) + 1
      ]_vars

----------------------------------------------------------------------------
(* Order of emissions *)

\* the results of a list that answer an anomaly, a compliance issue, a rule
AnomalyResponses(results) ==
    SelectSeq(results, LAMBDA r :
        r.type = "playbook" /\ r.context \in { a.id : a \in AnomalyInputs })

PolicyResponses(results) == SelectSeq(results, LAMBDA r : r.type = "policy")

\* the place of a policy result's rule among all rules, policy by policy
RulePlace(result) ==
    CHOOSE place \in (1..Len(policies)) \X (1..3) :
        /\ place[2] <= Len(policies[place[1]].rules)
        /\ result.name = policies[place[1]].name \o ":"
                            \o policies[place[1]].rules[place[2]].name

Before(p, q) == p[1] < q[1] \/ (p[1] = q[1] /\ p[2] < q[2])

\* C23: every subscriber of a stage is handed each emission of the stage
\* once and in the order of emission; and the results Orchestration emits
\* for one AnalyticsResult are the responses to its anomalies in the order of
\* the anomalies, then the responses to its compliance results in their
\* order, then the policy results in the order of the policies and of their
\* rules.
C23_EmissionsInOrder ==
    [][ /\ \A stage \in Stages : \A i \in 1..Len(callbacks'[stage]) :
              /\ Len(received'[stage][i]) = Len(Emission(stage)')
              /\ \A k \in 1..Len(Emission(stage)') :
                    received'[stage][i][k] = Emission(stage)'[k]
        /\ emitted' # <<>> =>
              /\ analysed # <<>>
              /\ LET result == analysed[1]
                     answered == SelectSeq(result.anomalies, LAMBDA a :
                                     a.severity \in {"critical", "high"} /\ Triggered(a))
                     issues == SelectSeq(result.complianceResults, LAMBDA c :
                                   ~c.compliant /\ c.control # Undefined
                                       /\ FrameworkTriggered(c))
                     A == AnomalyResponses(emitted')
                     C == ComplianceResponses(emitted')
                     P == PolicyResponses(emitted')
                 IN  /\ emitted' = A \o C \o P
                     /\ Len(A) = Len(answered)
                     /\ \A k \in 1..Len(A) : A[k].context = answered[k].id
                     /\ Len(C) = Len(issues)
                     /\ \A k \in 1..Len(C) : C[k].context = issues[k].control
                     /\ \A k \in 1..(Len(P) - 1) :
                           Before(RulePlace(P[k]), RulePlace(P[k + 1]))
      ]_vars

\* C23 witness: Orchestration has two subscribers, the first of which
\* throws, and has emitted for one AnalyticsResult the responses to two
\* anomalies, the later-numbered one first as in the result, and then two
\* policy results; both subscribers were handed the four in this order.
C23_FourResultsInOrder ==
    /\ callbacks["orchestration"] = <<"throws", "returns">>
    /\ Len(emitted) = 4
    /\ emitted[1].context = "a2"
    /\ emitted[2].context = "a1"
    /\ emitted[3].type = "policy"
    /\ emitted[4].type = "policy"
    /\ received["orchestration"][1] = emitted
    /\ received["orchestration"][2] = emitted

----------------------------------------------------------------------------
(* C24: the handling of two batches is never interleaved                   *)

\* Which handler follows which in the handling of one batch
HandlerOrder ==
    { <<"handleNewData", "handleProcessedData">>,
      <<"handleProcessedData", "handleAnalyticsResult">>,
      <<"handleAnalyticsResult", "return">>,
      <<"handleNewData", "return">> }

\* The sources whose record this step writes with a lastSyncTime
SyncTimeWritten ==
    { id \in DOMAIN dataSources' :
        /\ dataSources'[id].lastSyncTime # NoTime
        /\ id \notin DOMAIN dataSources \/ dataSources'[id] # dataSources[id] }

\* While a batch is handled nothing else starts: no fetch begins or
\* resumes, no source, timer, buffer or subscriber list changes
NothingElseStarts ==
    /\ inflight' = inflight
    /\ timers' = timers
    /\ collectionIntervals' = collectionIntervals
    /\ dataBuffer' = dataBuffer
    /\ callbacks' = callbacks
    /\ delivered' = <<>>

StagesInTurn ==
    /\ running # <<>> => NothingElseStarts
    /\ running # <<>> /\ running' # <<>> =>
          /\ running'[1].fetch = running[1].fetch
          /\ <<running[1].handler, running'[1].handler>> \in HandlerOrder
          /\ dataSources' = dataSources
    /\ running # <<>> /\ running' = <<>> => running[1].handler = "return"
    /\ Running("handleNewData") /\ running'[1].handler = "return" =>
          running[1].fetch.id \notin DOMAIN dataSources
    /\ processed' # <<>> => Running("handleNewData")
    /\ analysed' # <<>> => Running("handleProcessedData")
    /\ emitted' # <<>> \/ incidents' # incidents => Running("handleAnalyticsResult")
    /\ delivered' # <<>> => running = <<>>
    /\ \A id \in SyncTimeWritten :
          /\ Running("return")
          /\ running[1].fetch.id = id
          /\ dataSources'[id].lastSyncTime = now

\* C24: every batch Ingestion emits is handled by Processing, Analytics and
\* Orchestration, one handler after the other, before its source's
\* lastSyncTime is written, and while it is handled no other batch enters
\* any stage and nothing else changes the services.
C24_StagesNeverInterleaved == [][StagesInTurn]_vars

\* A batch has been handled by all stages, an incident has been created for
\* it, and collectData is about to write lastSyncTime while the fetch of
\* another batch is pending.
C24_HandledWhileAnotherWaits ==
    /\ Running("return")
    /\ incidents # <<>>
    /\ inflight # {}
    /\ running[1].fetch.id \in DOMAIN dataSources
----------------------------------------------------------------------------
(* C25: a pending fetch and the next tick                                  *)

\* The fetches of source id that have not completed
FetchesOf(id) == { fetch \in inflight : fetch.id = id }

\* C25: at most one fetch per source is in flight at any time (a fetch that
\* has not completed delays its source's next tick), and a pending fetch of
\* one source keeps no other source's tick from starting.
C25_OneFetchPerSource ==
    \A id \in SourceIds : Cardinality(FetchesOf(id)) <= 1
----------------------------------------------------------------------------
(* C26: stopCollection halts one timer and nothing else                    *)

\* The source has no collection task
Halted(id) == id \notin DOMAIN collectionIntervals /\ TimersOf(timers, id) = {}

\* The batch in the call comes from a registered source whose collection
\* has been stopped
HaltedBatch ==
    /\ running # <<>>
    /\ Halted(running[1].fetch.id)
    /\ running[1].fetch.id \in DOMAIN dataSources

\* The last Len(data) records of the buffer are data
BufferEndsWith(buffer, data) ==
    /\ Len(buffer) >= Len(data)
    /\ SubSeq(buffer, Len(buffer) - Len(data) + 1, Len(buffer)) = data

StopHaltsOnlyTheTimer ==
    /\ \A id \in SourceIds :
          stopCollection(id) =>
              /\ Halted(id)'
              /\ UNCHANGED <<dataSources, dataBuffer, inflight>>
              /\ \A other \in SourceIds \ {id} :
                    /\ TimersOf(timers', other) = TimersOf(timers, other)
                    /\ LiveTimers(timers', other) = LiveTimers(timers, other)
                    /\ (other \in DOMAIN collectionIntervals')
                          = (other \in DOMAIN collectionIntervals)
                    /\ other \in DOMAIN collectionIntervals
                          => collectionIntervals'[other] = collectionIntervals[other]
    /\ \A fetch \in inflight \ inflight' :
          Halted(fetch.id) =>
              /\ fetch.id \in DOMAIN dataBuffer'
              /\ BufferEndsWith(dataBuffer'[fetch.id], fetch.data)
              /\ delivered' = <<[sourceId |-> fetch.id, data |-> fetch.data]>>
              /\ running' = Frame(fetch, "handleNewData")
    /\ HaltedBatch /\ Running("handleNewData") =>
          /\ Len(processed') = 1
          /\ processed'[1].originalCount = Len(running[1].fetch.data)
          /\ processed'[1].environment = dataSources[running[1].fetch.id].environment
          /\ running' = Frame(running[1].fetch, "handleProcessedData")
    /\ HaltedBatch /\ Running("handleProcessedData") =>
          /\ Len(analysed') = 1
          /\ analysed'[1].environment = dataSources[running[1].fetch.id].environment
          /\ running' = Frame(running[1].fetch, "handleAnalyticsResult")
    /\ HaltedBatch /\ Running("handleAnalyticsResult") =>
          /\ emitted' = AnomalyResults(playbooks, analysed[1].anomalies)
                            \o ComplianceResults(playbooks, analysed[1].complianceResults)
          /\ running' = Frame(running[1].fetch, "return")

\* C26: stopCollection(id) ends id's collection task and changes neither the
\* registered sources, nor the buffers, nor the fetches under way, nor any
\* other source's task; a batch of id whose fetch was under way when the
\* collection was stopped is still appended to id's buffer, handed to the
\* data subscribers, processed, analysed and handled by Orchestration.
C26_StopHaltsOnlyTheTimer == [][StopHaltsOnlyTheTimer]_vars

\* The batch of a stopped source has gone through all stages and opened an
\* incident, while another source's collection task is still running.
C26_StoppedSourceBatchHandled ==
    /\ HaltedBatch
    /\ Running("return")
    /\ incidents # <<>>
    /\ dataBuffer[running[1].fetch.id] # <<>>
    /\ collectionIntervals # <<>>
----------------------------------------------------------------------------
(* C27: a write to the registry during a fetch                             *)

\* What a caller registers: every field of the record but lastSyncTime
Registered(dataSource) ==
    <<dataSource.id, dataSource.type, dataSource.environment,
      dataSource.pollingInterval, dataSource.status>>

\* The fields of a registered record other than status and lastSyncTime
Described(dataSource) ==
    <<dataSource.id, dataSource.type, dataSource.environment,
      dataSource.pollingInterval>>

\* C27: the completion of a fetch of a registered source leaves the
\* registered record as the last registerDataSource or updateDataSource
\* wrote it, lastSyncTime aside (and status, which a failed fetch sets to
\* 'error').
C27_FetchKeepsRegisteredRecord ==
    [][\A fetch \in inflight \ inflight' :
          fetch.id \in DOMAIN dataSources =>
              /\ fetch.id \in DOMAIN dataSources'
              /\ \/ Registered(dataSources'[fetch.id]) = Registered(dataSources[fetch.id])
                 \/ /\ Described(dataSources'[fetch.id]) = Described(dataSources[fetch.id])
                    /\ dataSources'[fetch.id].status = "error"
      ]_vars
----------------------------------------------------------------------------
(* C28: the DatabaseService before and after initialize                    *)

\* What the store holds and the calls under way
Stored == <<database.rows, database.children, database.calls>>

\* C28: while initialize(db) has not been called, every call of a public
\* operation throws 'Database service not initialized', hands no statement
\* to the store and leaves the rows and the calls under way as they were;
\* once initialize(db) has been called no step throws that error.
C28_NotInitializedThrows ==
    [][/\ database.db = Null /\ database'.db = Null /\ database' # database =>
             /\ database'.outcome = NotInitialized
             /\ database'.statements = <<>>
             /\ Stored' = Stored
       /\ database.db # Null =>
             /\ database'.db # Null
             /\ database'.outcome # NotInitialized
      ]_vars

\* An operation has been called before initialize(db) and has thrown
C28_CalledBeforeInitialize ==
    /\ database.db = Null
    /\ database.outcome = NotInitialized
    /\ database.statements = <<>>
----------------------------------------------------------------------------
(* C29: operations on an entity that does not exist                        *)

UpdateOperations == { op \in Operations : op.shape = "update" }

\* The in-memory sources, tasks, buffers and incidents
InMemory == <<dataSources, collectionIntervals, timers, dataBuffer, inflight, incidents>>

\* The step hands an UPDATE to the store
IssuesUpdate ==
    /\ database' # database
    /\ \E k \in 1..Len(database'.statements) : database'.statements[k].verb = "UPDATE"

UnknownChangesNothing ==
    /\ \A op \in UpdateOperations, id \in RowIds :
          /\ database.db # Null
          /\ database' # database
          /\ Select(database, op.table, id) = {}
          /\ Call(op, id, [NoPatch EXCEPT !.status = "closed"], NoTime)
          => /\ database'.outcome = "null"
             /\ ~IssuesUpdate
             /\ Stored' = Stored
    /\ \A call \in database'.calls \ database.calls :
          call.pc = "update" => Select(database, call.op.table, call.id) # {}
    /\ IssuesUpdate => database.calls \ database'.calls # {}
    /\ \A dataSource \in DataSourceInputs :
          /\ dataSource.id \notin DOMAIN dataSources
          /\ database' = database
          /\ updateDataSource(dataSource)
          => thrown' = {NotFound} /\ UNCHANGED InMemory
    /\ \A id \in SourceIds :
          /\ id \notin DOMAIN dataSources
          /\ database' = database
          /\ startCollection(id)
          => thrown' = {NotFound} /\ UNCHANGED InMemory
    /\ \A event \in EventInputs :
          /\ database' = database
          /\ addIncidentEvent(UnknownIncident, event)
          => thrown' = {NotFound} /\ UNCHANGED InMemory

\* C29: updateDataSource, updateAsset, updateAnomaly, updateIncident,
\* updateUser and updateDashboard of the DatabaseService, called with an id
\* that has no row, return null, issue no UPDATE and leave the store as it
\* was (an UPDATE is only ever issued by a call that found its row); the
\* in-memory updateDataSource and startCollection on an unregistered source
\* and addIncidentEvent on an unknown incident throw a not-found error and
\* leave sources, tasks, buffers, fetches and incidents unchanged.
C29_UnknownEntityChangesNothing == [][UnknownChangesNothing]_vars

\* A persisted update has returned null for an id without a row while
\* another row is stored, and an in-memory call on an unknown entity has
\* just thrown while a source is registered and an incident is open.
C29_UnknownAmongKnown ==
    /\ database.outcome = "null"
    /\ database.rows # {}
    /\ thrown = {NotFound}
    /\ dataSources # <<>>
    /\ incidents # <<>>
----------------------------------------------------------------------------
(* C30: updated_at is the time of the last write                           *)

\* The row the step leaves for a row of the store, none when it is deleted
After(row) ==
    { after \in database'.rows :
        after.table = row.table /\ after.id = row.id /\ after.created_at = row.created_at }

\* C30: every statement that writes a row, or adds, updates or deletes one
\* of its events or widgets, sets the row's updated_at to the time of the
\* write: a row that a step changes has the clock's time as its updated_at
\* afterwards, and no row's updated_at ever decreases.
C30_UpdatedAtIsTimeOfWrite ==
    [][\A row \in database.rows : \A after \in After(row) :
          /\ after.updated_at >= row.updated_at
          /\ after # row => after.updated_at = now
      ]_vars
----------------------------------------------------------------------------
(* C31: a completed delete leaves no dependent row                         *)

\* The rows of a table's dependent tables that name the row id
DependentRows(store, table, id) ==
    { child \in store.children :
        /\ child.parent = id
        /\ \E n \in 1..Len(Dependents(table)) : child.table = Dependents(table)[n] }

\* The call's last statement, the DELETE of the row itself, resolves
Completes(call) ==
    /\ call \in database.calls
    /\ call.pc = "deleteRow"
    /\ database' = Continue(database, call, now)

\* C31: when deleteAsset(id) or deleteDashboard(id) completes, no row of
\* vulnerabilities, patches, configurations or dashboard_widgets names the
\* deleted row, whatever calls ran between the delete's statements.
C31_CompletedDeleteLeavesNoDependents ==
    [][\A call \in database.calls :
          Completes(call) => DependentRows(database', call.op.table, call.id) = {}
      ]_vars
----------------------------------------------------------------------------
(* C32: a terminal incident has resolvedAt                                 *)

\* The incidents of both stores as status and resolvedAt
StoredIncidents ==
    { [status |-> incidents[i].status, resolvedAt |-> incidents[i].resolvedAt] :
        i \in 1..Len(incidents) }
    \cup { [status |-> row.status, resolvedAt |-> row.resolved_at] :
             row \in { r \in database.rows : r.table = "incidents" } }

TerminalHasResolvedAt ==
    \A incident \in StoredIncidents :
        incident.status \in TerminalStatuses => incident.resolvedAt # NoTime

\* resolvedAt goes from unset to set only in a step that leaves the incident
\* in a terminal state
ResolvedAtSetAtTerminalOnly ==
    /\ \A i \in 1..Len(incidents), j \in 1..Len(incidents') :
          /\ incidents'[j].id = incidents[i].id
          /\ incidents[i].resolvedAt = NoTime
          /\ incidents'[j].resolvedAt # NoTime
          => incidents'[j].status \in TerminalStatuses
    /\ \A row \in database.rows : \A after \in After(row) :
          row.resolved_at = NoTime /\ after.resolved_at # NoTime
          => after.status \in TerminalStatuses

\* C32: in both stores an incident whose status is 'resolved' or 'closed' has
\* resolvedAt set, and resolvedAt is unset in a new incident and becomes set
\* only when the incident reaches one of the two states.
C32_TerminalIncidentHasResolvedAt ==
    /\ []TerminalHasResolvedAt
    /\ [][ResolvedAtSetAtTerminalOnly]_vars
----------------------------------------------------------------------------
(* C33: the default compliance monitor and the compliance cache            *)

\* The control ids of the results of a call
CheckedIds(results) == { results[k].control.id : k \in 1..Len(results) }

\* C33: a call of checkCompliance under the default monitor returns at most
\* one result, and none for an empty batch; a result is compliant exactly
\* when its control's status is 'compliant'; and the cache then holds the
\* control of each result under its id and every other entry as before, so
\* that it always holds the control of the latest result of each id.
C33_DefaultMonitorAndCache ==
    [][ /\ \A hit \in BOOLEAN, control \in 1..Len(ControlCatalog),
             status \in 1..Len(ControlStatuses) :
              defaultComplianceMonitor(0, hit, control, status, now) = <<>>
        /\ <<checked, complianceStatus>>' # <<checked, complianceStatus>> =>
              /\ Len(checked') <= 1
              /\ \A k \in 1..Len(checked') :
                    /\ checked'[k].compliant <=> checked'[k].control.status = "compliant"
                    /\ complianceStatus'[checked'[k].control.id] = checked'[k].control
              /\ DOMAIN complianceStatus' = DOMAIN complianceStatus \cup CheckedIds(checked')
              /\ \A id \in DOMAIN complianceStatus \ CheckedIds(checked') :
                    complianceStatus'[id] = complianceStatus[id]
      ]_vars

\* C33 witness: the last call found a control partially compliant; its
\* result is not compliant and its control is cached under its id, next to
\* the control of an earlier result
C33_PartiallyCompliantCached ==
    /\ Len(checked) = 1
    /\ checked[1].control.status = "partially_compliant"
    /\ ~checked[1].compliant
    /\ complianceStatus[checked[1].control.id] = checked[1].control
    /\ Cardinality(DOMAIN complianceStatus) = 2
----------------------------------------------------------------------------
(* C34: the events of a timeline name their incident                       *)

\* C34: every event of every stored incident's timeline has the id of that
\* incident as its incidentId.
C34_EventsNameTheirIncident ==
    \A i \in 1..Len(incidents) :
        \A k \in 1..Len(incidents[i].timeline) :
            incidents[i].timeline[k].incidentId = incidents[i].id
----------------------------------------------------------------------------
(* C35: a source registered or updated as not polling has no task          *)

\* The sources for which register and update start no collection
NotPolling(dataSource) ==
    dataSource.status = "inactive" \/ dataSource.pollingInterval = 0

\* C35: after registerDataSource(ds), or updateDataSource(ds) on a registered
\* source, with ds inactive or without a polling interval, no collection task
\* runs for ds.id, whatever was registered under that id before.
C35_NotPollingSourceHasNoTask ==
    [][\A dataSource \in DataSourceInputs :
          /\ NotPolling(dataSource)
          /\ \/ registerDataSource(dataSource)
             \/ dataSource.id \in DOMAIN dataSources /\ updateDataSource(dataSource)
          => /\ dataSource.id \notin DOMAIN collectionIntervals'
             /\ LiveTimers(timers', dataSource.id) = 0
      ]_vars
----------------------------------------------------------------------------
(* C36: tasks, sources and buffers agree                                   *)

\* every task, in the Map and among the live timers, is a registered source's
TasksOfRegisteredSources ==
    /\ DOMAIN collectionIntervals \subseteq DOMAIN dataSources
    /\ \A timer \in BagToSet(timers) : timer.id \in DOMAIN dataSources

AtMostOneTaskPerSource == \A id \in SourceIds : LiveTimers(timers, id) <= 1

EverySourceHasBuffer == DOMAIN dataSources \subseteq DOMAIN dataBuffer

----------------------------------------------------------------------------
(* C37: Processing emits one batch for a registered source, none otherwise *)

\* Nothing is analysed or orchestrated in the step, and no cache and no
\* incident changes
LaterStagesUntouched ==
    /\ analysed' = <<>>
    /\ emitted' = <<>>
    /\ UNCHANGED <<anomalyCache, riskVars, incidents>>

\* The step in which Processing is handed the batch of the call
BatchHandled ==
    LET fetch == running[1].fetch
    IN  IF fetch.id \in DOMAIN dataSources
        THEN /\ Len(processed') = 1
             /\ processed'[1].originalCount = Len(fetch.data)
             /\ running' = Frame(fetch, "handleProcessedData")
        ELSE /\ processed' = <<>>
             /\ LaterStagesUntouched
             /\ running' = Frame(fetch, "return")

\* C37: handed an ingestion batch, Processing emits one processed batch
\* whose originalCount is the size of the batch when the batch's source is
\* registered at that moment; otherwise it emits nothing, the call goes
\* straight back to collectData, and until the call has returned nothing is
\* analysed or orchestrated and no cache and no incident changes.
C37_OneBatchForRegisteredSource ==
    [][ /\ Running("handleNewData") => BatchHandled
        /\ Running("return") => LaterStagesUntouched /\ running' = <<>>
        /\ running = <<>> => running' = <<>> \/ Running("handleNewData")'
      ]_vars

\* C37 witness: the batch of a source that was removed during its fetch has
\* been handed to Processing, which emitted nothing
C37_BatchOfRemovedSourceDropped ==
    /\ Running("return")
    /\ running[1].fetch.id \notin DOMAIN dataSources
    /\ Len(running[1].fetch.data) = MaxBatch
    /\ processed = <<>>
----------------------------------------------------------------------------
(* C38: the incident exists when the playbook's result is handed out       *)

\* The results a subscriber of Orchestration is handed in the step that
\* carry an anomaly
HandedAnomalyResults ==
    { result \in UNION { Range(received'["orchestration"][i]) :
                            i \in 1..Len(callbacks["orchestration"]) } :
        result.context \in { anomaly.id : anomaly \in AnomalyInputs } }

\* An incident of the store names the anomaly
IncidentFor(incs, anomalyId) ==
    \E i \in 1..Len(incs) :
        \E k \in 1..Len(incs[i].relatedAnomalies) : incs[i].relatedAnomalies[k] = anomalyId

\* C38: when a subscriber of Orchestration is handed a playbook result that
\* carries an anomaly, the incident store already holds an incident whose
\* relatedAnomalies contains the anomaly's id, whether the result's success
\* is true or false.
C38_IncidentExistsWhenNotified ==
    [][\A result \in HandedAnomalyResults :
          /\ IncidentFor(incidents, result.context)
          /\ IncidentFor(incidents', result.context)
      ]_vars

\* C38 witness: a subscriber has been handed the result of a playbook that
\* failed, and the incident of its anomaly is in the store
C38_FailedResultHandedWithIncident ==
    /\ \E i \in 1..Len(callbacks["orchestration"]) :
          \E result \in Range(received["orchestration"][i]) :
              /\ ~result.success
              /\ IncidentFor(incidents, result.context)
    /\ responding = <<>>
----------------------------------------------------------------------------
(* C39: the events updateIncident records                                  *)

\* The incident row a store holds under an id
StoredIncident(store, id) == CHOOSE row \in Select(store, "incidents", id) : TRUE

\* The call's UPDATE of the incident row is issued
Writes(call) ==
    /\ call \in database.calls
    /\ call.op.table = "incidents"
    /\ call.pc = "update"
    /\ database' = Continue(database, call, now)

\* C39: updateIncident records a 'status_change' event exactly when its write
\* changes the stored status, naming as 'from' the status stored immediately
\* before the write, and an 'assignment' event exactly when its write changes
\* the stored assignee, also when two calls on one incident interleave.
C39_EventsFollowStoredChanges ==
    [][\A call \in database.calls :
          Writes(call) =>
             LET before == StoredIncident(database, call.id)
                 after == StoredIncident(database', call.id)
             IN  /\ StatusChanged(call) <=> before.status # after.status
                 /\ StatusChanged(call) => call.existing = before.status
                 /\ AssigneeChanged(call) <=> before.assigned_to # after.assigned_to
      ]_vars

====
